---- MODULE Spec2Model ----
(***************************************************************************)
(* A model of the wind-grid assembly of pysi (src/pysi/wind/model/base.py, *)
(* class WindBase): the table reader, the merge of the bulk-parameter and  *)
(* ion tables into one parameter namespace, the derivation of the grid     *)
(* shape and coordinate system, the cell-spectrum loader, the banded       *)
(* J_nu model reconstruction and the derivation of the axis coordinates.   *)
(*                                                                         *)
(* Text is modelled as TLA+ strings read character by character (Ch), so   *)
(* that str.isdigit, the path formatting of read_in_wind_table and the     *)
(* regular expressions are computed as the code computes them.  A numpy    *)
(* array is a record [shape, data]: its shape tuple and its row-major      *)
(* buffer.  A raised exception is the name of its class in `exc`.          *)
(***************************************************************************)
EXTENDS Integers, Sequences, FiniteSets, TLC

\* ------------------------------------------------------------------ bounds

\* Largest n_x and n_z of the simulated grids whose tables are on disk.
MaxNx == 2
MaxNz == 2
\* Largest n_x and n_z of the grids the index bijection is applied to.
MaxIdxNx == 5
MaxIdxNz == 5
\* the cells of a spec table handed to create_banded_jnu_models on its own
MaxBandCells == 3
\* longest ions_read_in from which read_in_wind_ions is called once more
MaxIonsReadIn == 10

\* ------------------------------------------------------------ Python text

Max(S) == CHOOSE m \in S : \A k \in S : k <= m
Min(S) == CHOOSE m \in S : \A k \in S : m <= k

\* s[k-1] of Python: the k-th character of s, as a one-character string.
Ch(s, k) == SubSeq(s, k, k)

DigitChars == {"0", "1", "2", "3", "4", "5", "6", "7", "8", "9"}

\* str.isdigit(): at least one character, and every character a digit.
IsDigit(s) == Len(s) > 0 /\ \A k \in 1..Len(s) : Ch(s, k) \in DigitChars

\* str.startswith(prefix)
StartsWith(s, prefix) ==
    Len(s) >= Len(prefix) /\ SubSeq(s, 1, Len(prefix)) = prefix

\* str.rfind(c) + 1 for a one-character c: 0 when c does not occur.
RFind(s, c) ==
    LET I == {k \in 1..Len(s) : Ch(s, k) = c}
    IN  IF I = {} THEN 0 ELSE Max(I)

DigitValue(c) ==
    CASE c = "0" -> 0 [] c = "1" -> 1 [] c = "2" -> 2 [] c = "3" -> 3
      [] c = "4" -> 4 [] c = "5" -> 5 [] c = "6" -> 6 [] c = "7" -> 7
      [] c = "8" -> 8 [] c = "9" -> 9

\* The value numpy.float64 / numpy.int32 parse from a token.  The tables of
\* the model write every number as an unsigned decimal integer, so a token
\* converts iff it is all digits; any other token is a ValueError here.
RECURSIVE ParseNumber(_)
ParseNumber(s) ==
    IF Len(s) = 0 THEN 0
    ELSE 10 * ParseNumber(SubSeq(s, 1, Len(s) - 1)) + DigitValue(Ch(s, Len(s)))

CanParseNumber(s) == IsDigit(s)

\* ----------------------------------------------------------------- pathlib

\* PurePath.name, .parent and .stem of a path given as a string.
PathName(p) == SubSeq(p, RFind(p, "/") + 1, Len(p))

PathParent(p) ==
    LET k == RFind(p, "/")
    IN  IF k = 0 THEN "." ELSE IF k = 1 THEN "/" ELSE SubSeq(p, 1, k - 1)

PathStemKeepsNothing(p) ==
    LET name == PathName(p)
        I == {k \in 1..Len(name) : Ch(name, k) = "."}
    IN  IF I = {} \/ Min(I) = 1 THEN name ELSE SubSeq(name, 1, Min(I) - 1)

PathStem(p) ==
    LET name == PathName(p)
        k == RFind(name, ".")
    IN  IF 1 < k /\ k < Len(name) THEN SubSeq(name, 1, k - 1) ELSE name

\* ------------------------------------------------------------------- numpy

\* An ndarray: its shape and its row-major buffer.  None is a value of its
\* own, told apart by `kind`.
NdArray(shape, data) == [kind |-> "ndarray", shape |-> shape, data |-> data]
None == [kind |-> "None", shape |-> <<>>, data |-> <<>>]

RECURSIVE Product(_)
Product(shape) == IF shape = <<>> THEN 1 ELSE Head(shape) * Product(Tail(shape))

RECURSIVE Flatten(_)
Flatten(rows) == IF rows = <<>> THEN <<>> ELSE Head(rows) \o Flatten(Tail(rows))

\* numpy.array(rows, dtype=numpy.float64) of a list of lists of tokens: a
\* ValueError when the rows differ in length or a token is no number, a
\* 1-D array of size 0 for no rows.
ArrayFromRowsRaises(rows) ==
    \/ \E a, b \in 1..Len(rows) : Len(rows[a]) # Len(rows[b])
    \/ \E a \in 1..Len(rows) : \E b \in 1..Len(rows[a]) : ~CanParseNumber(rows[a][b])

ArrayFromRows(rows) ==
    IF rows = <<>> THEN NdArray(<<0>>, <<>>)
    ELSE NdArray(<<Len(rows), Len(rows[1])>>,
                 Flatten([a \in 1..Len(rows) |->
                            [b \in 1..Len(rows[a]) |-> ParseNumber(rows[a][b])]]))

\* array[:, i] for a 0-based i: an IndexError unless the array is 2-D and
\* has a column i.
ColumnRaises(array, i) == Len(array.shape) # 2 \/ i >= array.shape[2]

Column(array, i) ==
    NdArray(<<array.shape[1]>>,
            [r \in 1..array.shape[1] |-> array.data[(r - 1) * array.shape[2] + i + 1]])

\* array.reshape(n_x, n_z): a ValueError unless the sizes agree; the buffer
\* is kept and only the shape changes.
ReshapeRaises(array, n_x, n_z) == Product(array.shape) # n_x * n_z

ReshapeKeepsShape(array, n_x, n_z) == array

Reshape(array, n_x, n_z) == NdArray(<<n_x, n_z>>, array.data)

\* numpy.max(array)
ArrayMax(array) == Max({array.data[k] : k \in 1..Len(array.data)})

\* numpy.unique(array): the distinct values in ascending order, 1-D.
RECURSIVE SortedSeq(_)
SortedSeq(S) ==
    IF S = {} THEN <<>> ELSE <<Min(S)>> \o SortedSeq(S \ {Min(S)})

Unique(array) ==
    LET vals == {array.data[k] : k \in 1..Len(array.data)}
    IN  NdArray(<<Cardinality(vals)>>, SortedSeq(vals))

\* numpy.zeros_like(array)
ZerosLike(array) == NdArray(array.shape, [k \in 1..Len(array.data) |-> 0])

\* ------------------------------------------------------------ table reader

\* A file is the list of its lines, a line the list of its whitespace-
\* separated tokens (line.strip().split()); a line starts with "#" iff its
\* first token does.  `files` maps the path of every regular file to its
\* content: Path.is_file() is membership in its domain.
IsFile(files, path) == path \in DOMAIN files

IsCommentLine(line) == Len(line) > 0 /\ StartsWith(line[1], "#")

NonCommentLines(file) == SelectSeq(file, LAMBDA line : ~IsCommentLine(line))

PrimaryPath(directory, root, table) ==
    directory \o "/" \o root \o "." \o table \o ".txt"

FallbackPathWithoutTable(file_path) ==
    PathParent(file_path) \o "/tables/" \o PathStemKeepsNothing(file_path) \o ".txt"

FallbackPath(file_path) ==
    PathParent(file_path) \o "/tables/" \o PathStem(file_path) \o ".txt"

\* What a call returns or raises: exc is "none" or the exception's class,
\* path the file that was opened ("" when none was).
TableResult(exc, path, header, params) ==
    [exc |-> exc, path |-> path, header |-> header, params |-> params]

\* The empty dict of `return [], {}`.
EmptyData == [kind |-> "dict", shape |-> <<>>, data |-> <<>>]

HeaderIsMissingNever(file_lines) == FALSE

\* The test for a missing header: file_lines[0][0].isdigit().
HeaderIsMissing(file_lines) == IsDigit(file_lines[1][1])

ParseTable(file_path, file_lines) ==
    IF file_lines = <<>> \/ file_lines[1] = <<>>
    THEN TableResult("IndexError", file_path, <<>>, EmptyData)
    ELSE IF HeaderIsMissing(file_lines)
    THEN TableResult("Exception", file_path, <<>>, EmptyData)
    ELSE IF ArrayFromRowsRaises(Tail(file_lines))
    THEN TableResult("ValueError", file_path, <<>>, EmptyData)
    ELSE TableResult("none", file_path, file_lines[1], ArrayFromRows(Tail(file_lines)))

ReadInWindTable(files, directory, root, table) ==
    LET primary == PrimaryPath(directory, root, table)
        file_path == IF IsFile(files, primary) THEN primary ELSE FallbackPath(primary)
    IN  IF ~IsFile(files, file_path)
        THEN TableResult("none", "", <<>>, EmptyData)
        ELSE ParseTable(file_path, NonCommentLines(files[file_path]))

\* ------------------------------------------------------------ the WindBase

\* The simulation the object is constructed for.
Directory == "run"
Root == "agn"

\* elements.ELEMENTS, the default of elements_to_read, cut to its first
\* one-letter and two-letter symbols.
Elements == <<"H", "He", "C">>

\* An assembly step is an operator from the object `self` (a record of its
\* fields, with `exc` the exception the step raised or "none") to the object
\* it leaves behind.
Raise(self, exc) == [self EXCEPT !.exc = exc]

\* dict[key] = value
SetItem(dict, key, value) == (key :> value) @@ dict

\* ---------------------------------------------- read_in_wind_parameters

BulkTables == <<"master", "heat", "gradient", "converge">>

\* The loop over the columns of one table: a column is bound only when its
\* name is not bound yet.  i is the 0-based index of the next column.
RECURSIVE BindColumnsOverwriting(_, _, _, _)
BindColumnsOverwriting(parameters, header, table_parameters, i) ==
    IF i >= Len(header) THEN [exc |-> "none", parameters |-> parameters]
    ELSE IF ColumnRaises(table_parameters, i)
    THEN [exc |-> "IndexError", parameters |-> parameters]
    ELSE BindColumnsOverwriting(
             SetItem(parameters, header[i + 1], Column(table_parameters, i)),
             header, table_parameters, i + 1)

RECURSIVE BindColumns(_, _, _, _)
BindColumns(parameters, header, table_parameters, i) ==
    IF i >= Len(header) THEN [exc |-> "none", parameters |-> parameters]
    ELSE IF header[i + 1] \in DOMAIN parameters
    THEN BindColumns(parameters, header, table_parameters, i + 1)
    ELSE IF ColumnRaises(table_parameters, i)
    THEN [exc |-> "IndexError", parameters |-> parameters]
    ELSE BindColumns(SetItem(parameters, header[i + 1], Column(table_parameters, i)),
                     header, table_parameters, i + 1)

\* The loop over the four bulk tables, from table number t on.
RECURSIVE MergeTables(_, _, _, _)
MergeTables(files, parameters, n_read, t) ==
    IF t > Len(BulkTables)
    THEN [exc |-> "none", parameters |-> parameters, n_read |-> n_read]
    ELSE LET read == ReadInWindTable(files, Directory, Root, BulkTables[t])
         IN  IF read.exc # "none"
             THEN [exc |-> read.exc, parameters |-> parameters, n_read |-> n_read]
             ELSE IF read.header = <<>>
             THEN MergeTables(files, parameters, n_read, t + 1)
             ELSE LET bound == BindColumns(parameters, read.header, read.params, 0)
                  IN  IF bound.exc # "none"
                      THEN [exc |-> bound.exc, parameters |-> bound.parameters,
                            n_read |-> n_read]
                      ELSE MergeTables(files, bound.parameters, n_read + 1, t + 1)

NoTableReadNever(n_read) == FALSE

\* n_read == 0 raises the OSError of a category with no table.
NoTableRead(n_read) == n_read = 0

CoordTypeRadiusFirst(parameters) ==
    IF "r" \in DOMAIN parameters THEN "spherical"
    ELSE IF "theta" \in DOMAIN parameters THEN "polar"
    ELSE "cylindrical"

CoordType(parameters) ==
    IF "r" \in DOMAIN parameters /\ "theta" \in DOMAIN parameters THEN "polar"
    ELSE IF "r" \in DOMAIN parameters THEN "spherical"
    ELSE "cylindrical"

GridNzIgnoresTheta(parameters) ==
    IF "z" \in DOMAIN parameters THEN ArrayMax(parameters["j"]) + 1 ELSE 1

\* n_z of the merged tables (asked only when column j is bound or unused).
GridNz(parameters) ==
    IF "z" \in DOMAIN parameters \/ "theta" \in DOMAIN parameters
    THEN ArrayMax(parameters["j"]) + 1
    ELSE 1

ReshapeAll(parameters, n_x, n_z) ==
    [col \in DOMAIN parameters |-> Reshape(parameters[col], n_x, n_z)]

ReadInWindParameters(files, self) ==
    LET merged == MergeTables(files, self.parameters, 0, 1)
        bound == [self EXCEPT !.parameters = merged.parameters]
        keys == DOMAIN merged.parameters
        read == [bound EXCEPT !.things_read_in = keys]
    IN  IF merged.exc # "none" THEN Raise(bound, merged.exc)
        ELSE IF NoTableRead(merged.n_read) THEN Raise(bound, "OSError")
        ELSE IF "i" \notin keys THEN Raise(read, "KeyError")
        ELSE LET n_x == ArrayMax(merged.parameters["i"]) + 1
                 with_n_x == [read EXCEPT !.n_x = n_x]
             IN  IF ("z" \in keys \/ "theta" \in keys) /\ "j" \notin keys
                 THEN Raise(with_n_x, "KeyError")
                 ELSE LET n_z == GridNz(merged.parameters)
                          shaped == [with_n_x EXCEPT
                                        !.n_z = n_z, !.n_cells = n_x * n_z,
                                        !.coord_type = CoordType(merged.parameters)]
                      IN  IF \E col \in keys : ReshapeRaises(merged.parameters[col], n_x, n_z)
                          THEN Raise(shaped, "ValueError")
                          ELSE [shaped EXCEPT
                                   !.parameters = ReshapeAll(merged.parameters, n_x, n_z)]

\* --------------------------------------------------- read_in_wind_ions

IonTypes == <<"frac", "den">>

\* re.match("i[0-9]+", column): the column starts with i and a digit.
MatchesIonColumn(column) ==
    Len(column) >= 2 /\ Ch(column, 1) = "i" /\ Ch(column, 2) \in DigitChars

\* The loop over the columns of one ion table.
RECURSIVE BindIons(_, _, _, _, _, _)
BindIons(self, element, ion_type, header, table_parameters, i) ==
    IF i >= Len(header) THEN self
    ELSE IF ~(MatchesIonColumn(header[i + 1]) /\ header[i + 1] \notin DOMAIN self.parameters)
    THEN BindIons(self, element, ion_type, header, table_parameters, i + 1)
    ELSE IF ColumnRaises(table_parameters, i) THEN Raise(self, "IndexError")
    ELSE IF ReshapeRaises(Column(table_parameters, i), self.n_x, self.n_z)
    THEN Raise(self, "ValueError")
    ELSE LET ion_name == element \o "_" \o header[i + 1] \o "_" \o ion_type
         IN  BindIons([self EXCEPT
                          !.parameters = SetItem(self.parameters, ion_name,
                              Reshape(Column(table_parameters, i), self.n_x, self.n_z)),
                          !.ions_read_in = Append(self.ions_read_in, ion_name)],
                      element, ion_type, header, table_parameters, i + 1)

\* The two loops over ion_type and element, from table number t on, where
\* table t is element (t-1) % len(elements) of ion type (t-1) // len(elements).
RECURSIVE ReadIonTables(_, _, _, _)
ReadIonTables(files, self, n_read, t) ==
    IF t > Len(IonTypes) * Len(Elements) THEN [self |-> self, n_read |-> n_read]
    ELSE LET ion_type == IonTypes[((t - 1) \div Len(Elements)) + 1]
             element == Elements[((t - 1) % Len(Elements)) + 1]
             read == ReadInWindTable(files, Directory, Root, element \o "." \o ion_type)
         IN  IF read.exc # "none" THEN [self |-> Raise(self, read.exc), n_read |-> n_read]
             ELSE IF read.header = <<>> THEN ReadIonTables(files, self, n_read, t + 1)
             ELSE LET bound == BindIons(self, element, ion_type, read.header, read.params, 0)
                  IN  IF bound.exc # "none" THEN [self |-> bound, n_read |-> n_read]
                      ELSE ReadIonTables(files, bound, n_read + 1, t + 1)

ReadInWindIons(files, self) ==
    LET done == ReadIonTables(files, self, 0, 1)
    IN  IF done.self.exc # "none" THEN done.self
        ELSE IF NoTableRead(done.n_read) THEN Raise(done.self, "OSError")
        ELSE done.self

\* ------------------------------------------- read_in_wind_cell_spectra

\* str.split(sep) for a one-character sep.
RECURSIVE Split(_, _)
Split(s, sep) ==
    LET I == {k \in 1..Len(s) : Ch(s, k) = sep}
    IN  IF I = {} THEN <<s>>
        ELSE <<SubSeq(s, 1, Min(I) - 1)>> \o Split(SubSeq(s, Min(I) + 1, Len(s)), sep)

\* numpy.zeros(shape)
Zeros(shape) == NdArray(shape, [k \in 1..Product(shape) |-> 0])

\* array[index[0], ..., :] = values, for an index one shorter than the
\* shape: an IndexError when an index is out of bounds (or there are too
\* many), a ValueError when values does not have the length of the last axis.
RECURSIVE RowMajor(_, _)
RowMajor(shape, index) ==
    IF index = <<>> THEN 0
    ELSE LET n == Len(index)
         IN  RowMajor(SubSeq(shape, 1, n - 1), SubSeq(index, 1, n - 1)) * shape[n] + index[n]

SetSliceRaises(array, index, values) ==
    IF Len(index) >= Len(array.shape) THEN "IndexError"
    ELSE IF \E k \in 1..Len(index) : index[k] >= array.shape[k] THEN "IndexError"
    ELSE IF Len(index) = Len(array.shape) - 1 /\ Len(values) # array.shape[Len(array.shape)]
    THEN "ValueError"
    ELSE "none"

SetSlice(array, index, values) ==
    LET n == array.shape[Len(array.shape)]
        offset == RowMajor(array.shape, index) * n
    IN  [array EXCEPT !.data =
            [k \in 1..Len(array.data) |->
                IF offset < k /\ k <= offset + n THEN values[k - offset] ELSE array.data[k]]]

\* The files of the directory as a directory listing yields them.
DirectoryListing == <<Directory \o "/" \o Root \o ".xspec.all.txt",
                      Directory \o "/" \o Root \o ".xspec.more.txt">>

\* fnmatch of a file name against "*xspec.*.txt".
MatchesXspecPattern(name) ==
    \E k \in 1..Len(name) :
        /\ SubSeq(name, k, k + 5) = "xspec."
        /\ k + 5 <= Len(name) - 4
        /\ SubSeq(name, Len(name) - 3, Len(name)) = ".txt"

\* pysi.util.shell.find_file_with_pattern("*xspec.*.txt", directory)
FindFileWithPattern(files, directory) ==
    SelectSeq(DirectoryListing,
              LAMBDA path : /\ IsFile(files, path)
                            /\ PathParent(path) = directory
                            /\ MatchesXspecPattern(PathName(path)))

CoordPartsOfWholeLabel(coord_string) == Split(coord_string, "_")

\* The coordinates a column label encodes: coord_string[1:].split("_").
CoordParts(coord_string) == Split(SubSeq(coord_string, 2, Len(coord_string)), "_")

\* The loop over the columns of one cell-spectrum file; i is the 0-based
\* index of the next label of file_header.
RECURSIVE ScatterSpectra(_, _, _, _)
ScatterSpectra(self, file_header, file_array, i) ==
    IF i >= Len(file_header) THEN self
    ELSE LET parts == CoordParts(file_header[i + 1])
             coords == [k \in 1..Len(parts) |-> ParseNumber(parts[k])]
             index == IF self.n_z > 1 THEN SubSeq(coords, 1, 2) ELSE SubSeq(coords, 1, 1)
         IN  IF \E k \in 1..Len(parts) : ~CanParseNumber(parts[k])
             THEN Raise(self, "ValueError")
             ELSE IF ColumnRaises(file_array, i + 1) \/ (self.n_z > 1 /\ Len(coords) < 2)
             THEN Raise(self, "IndexError")
             ELSE LET flux == Column(file_array, i + 1).data
                      freq == Column(file_array, 0).data
                      spec_flux == self.parameters["spec_flux"]
                      spec_freq == self.parameters["spec_freq"]
                  IN  IF SetSliceRaises(spec_flux, index, flux) # "none"
                      THEN Raise(self, SetSliceRaises(spec_flux, index, flux))
                      ELSE LET with_flux ==
                                   [self EXCEPT !.parameters =
                                       SetItem(self.parameters, "spec_flux",
                                               SetSlice(spec_flux, index, flux))]
                           IN  IF SetSliceRaises(spec_freq, index, freq) # "none"
                               THEN Raise(with_flux, SetSliceRaises(spec_freq, index, freq))
                               ELSE ScatterSpectra(
                                        [with_flux EXCEPT !.parameters =
                                            SetItem(with_flux.parameters, "spec_freq",
                                                    SetSlice(spec_freq, index, freq))],
                                        file_header, file_array, i + 1)

\* The shape of the array allocated for the spectra of a file.
SpectrumShape(self, file_array) ==
    IF self.n_z > 1 THEN <<self.n_x, self.n_z, file_array.shape[1]>>
    ELSE <<self.n_x, file_array.shape[1]>>

Allocate(self, key, shape) ==
    IF key \in DOMAIN self.parameters THEN self
    ELSE [self EXCEPT !.parameters = SetItem(self.parameters, key, Zeros(shape))]

\* The loop over the cell-spectrum files, from file number f on.
RECURSIVE ReadSpectrumFiles(_, _, _, _)
ReadSpectrumFiles(files, self, spec_table_files, f) ==
    IF f > Len(spec_table_files) THEN self
    ELSE LET file_lines == NonCommentLines(files[spec_table_files[f]])
         IN  IF file_lines = <<>> \/ file_lines[1] = <<>> THEN Raise(self, "IndexError")
             ELSE IF HeaderIsMissing(file_lines) THEN Raise(self, "Exception")
             ELSE IF ArrayFromRowsRaises(Tail(file_lines)) THEN Raise(self, "ValueError")
             ELSE LET file_header == Tail(file_lines[1])
                      file_array == ArrayFromRows(Tail(file_lines))
                  IN  IF ("spec_freq" \notin DOMAIN self.parameters
                              \/ "spec_flux" \notin DOMAIN self.parameters)
                         /\ ColumnRaises(file_array, 0)
                      THEN Raise(self, "IndexError")
                      ELSE LET allocated ==
                                   Allocate(Allocate(self, "spec_freq",
                                                     SpectrumShape(self, file_array)),
                                            "spec_flux", SpectrumShape(self, file_array))
                               scattered == ScatterSpectra(allocated, file_header, file_array, 0)
                           IN  IF scattered.exc # "none" THEN scattered
                               ELSE ReadSpectrumFiles(files, scattered, spec_table_files, f + 1)

MarkAbsentLeavesUnset(self, keys) == self

MarkAbsentForgetsTheRest(self, keys) ==
    [self EXCEPT !.parameters = [key \in keys |-> None]]

\* Both keys are bound to None when there is no file.
MarkAbsent(self, keys) ==
    [self EXCEPT !.parameters =
        [key \in keys |-> None] @@ self.parameters]

ReadInWindCellSpectra(files, self) ==
    LET spec_table_files == FindFileWithPattern(files, Directory)
    IN  IF Len(spec_table_files) = 0
        THEN MarkAbsent(self, {"spec_freq", "spec_flux"})
        ELSE ReadSpectrumFiles(files, self, spec_table_files, 1)

\* --------------------------------------------- read_in_wind_jnu_models

\* The default of n_freq_bins_per_band.
DefaultFreqBins == 250

\* list.index(value) + 1: 0 when the value is not in the list (a ValueError).
ListIndex(list, value) ==
    LET I == {k \in 1..Len(list) : list[k] = value}
    IN  IF I = {} THEN 0 ELSE Min(I)

\* The arrays of one band stand for their values: `fn` names the formula
\* (logspace, powerlaw, exponential), lo and hi the band's limits, a and b
\* the coefficients, n the number of entries.
BandArray(fn, lo, hi, a, b, n) ==
    [fn |-> fn, lo |-> lo, hi |-> hi, a |-> a, b |-> b, n |-> n]

RECURSIVE TotalLength(_)
TotalLength(arrays) ==
    IF arrays = <<>> THEN 0 ELSE Head(arrays).n + TotalLength(Tail(arrays))

\* numpy.hstack(arrays): one 1-D array, the arrays end to end.
HStack(arrays) == [kind |-> "hstack", shape |-> <<TotalLength(arrays)>>, data |-> arrays]

\* An element 0 of an array of dtype=list, and numpy.zeros(shape, dtype=list).
ZeroObject == [kind |-> "int", shape |-> <<>>, data |-> <<0>>]
ObjectZeros(shape) == NdArray(shape, [k \in 1..Product(shape) |-> ZeroObject])

\* array[index] = value for one element: an IndexError when there are more
\* indices than axes or an index is out of bounds.
SetElementRaises(array, index) ==
    \/ Len(index) > Len(array.shape)
    \/ \E k \in 1..Len(index) : index[k] >= array.shape[k]

SetElement(array, index, value) ==
    [array EXCEPT !.data[RowMajor(array.shape, index) + 1] = value]

\* The row of the spec table that holds the coefficients of a cell's band.
BandRowCellMajor(n_cells, cell_index, band_index) == cell_index * n_cells + band_index

BandRow(n_cells, cell_index, band_index) == cell_index + band_index * n_cells

\* get_ij_from_elem_number and get_elem_number_from_ij; int() of a quotient
\* of non-negative numbers is the integer quotient.
GetIjSwapped(n_z, elem) == <<elem % n_z, elem \div n_z>>

GetIjFromElemNumber(n_z, elem) ==
    LET i == elem \div n_z
        j == elem - i * n_z
    IN  <<i, j>>

GetElemNumberFromIj(n_z, i, j) == n_z * i + j

BandIsEmptyOnlyWhenZero(band_freq_min, band_freq_max) ==
    band_freq_min = 0 /\ band_freq_max = 0

\* `if band_freq_max > band_freq_min` fails: the band is empty.
BandIsEmpty(band_freq_min, band_freq_max) == ~(band_freq_max > band_freq_min)

\* create_banded_jnu_models: the lists it returns, the exception it raised
\* and the number of warnings it gave.
BandResult(exc, warned, cell_frequency, cell_flux) ==
    [exc |-> exc, warned |-> warned, cell_frequency |-> cell_frequency,
     cell_flux |-> cell_flux]

UnusableBandKeepsLists(cell_frequency, cell_flux) ==
    BandResult("none", 1, cell_frequency, cell_flux)

\* `if model_type is None`: a warning and `return [], []`.
UnusableBand(cell_frequency, cell_flux) == BandResult("none", 1, <<>>, <<>>)

CreateBandedJnuModels(self, cell_index, band_index, model_array, table_header, n_freq_bins_per_band, cell_frequency, cell_flux) ==
    LET row == BandRow(self.n_cells, cell_index, band_index)
        n_cols == model_array.shape[2]
        Has(col) == ListIndex(table_header, col) # 0
        \* the dict comprehension keeps the last column of a repeated name
        Get(col) == model_array.data[
                        row * n_cols + Max({k \in 1..Len(table_header) : table_header[k] = col})]
        unchanged == BandResult("none", 0, cell_frequency, cell_flux)
    IN  IF row >= model_array.shape[1] \/ Len(table_header) > n_cols
        THEN [unchanged EXCEPT !.exc = "IndexError"]
        ELSE IF ~Has("fmin") \/ ~Has("fmax") THEN [unchanged EXCEPT !.exc = "KeyError"]
        ELSE IF BandIsEmpty(Get("fmin"), Get("fmax")) THEN unchanged
        ELSE IF ~Has("spec_mod_type") /\ ~Has("spec_mod_")
        THEN UnusableBand(cell_frequency, cell_flux)
        ELSE LET model_type == IF Has("spec_mod_type") THEN Get("spec_mod_type")
                                ELSE Get("spec_mod_")
                 band_frequency_bins ==
                     BandArray("logspace", Get("fmin"), Get("fmax"), 0, 0, n_freq_bins_per_band)
             IN  IF model_type = 1
                 THEN IF ~Has("pl_log_w") \/ ~Has("pl_alpha")
                      THEN [unchanged EXCEPT !.exc = "KeyError"]
                      ELSE BandResult("none", 0,
                               Append(cell_frequency, band_frequency_bins),
                               Append(cell_flux,
                                      BandArray("powerlaw", Get("fmin"), Get("fmax"),
                                                Get("pl_log_w"), Get("pl_alpha"),
                                                n_freq_bins_per_band)))
                 ELSE IF ~Has("exp_w") \/ ~Has("exp_temp")
                      THEN [unchanged EXCEPT !.exc = "KeyError"]
                      ELSE BandResult("none", 0,
                               Append(cell_frequency, band_frequency_bins),
                               Append(cell_flux,
                                      BandArray("exponential", Get("fmin"), Get("fmax"),
                                                Get("exp_w"), Get("exp_temp"),
                                                n_freq_bins_per_band)))

\* The loop over the bands of one cell, from band_index on.
RECURSIVE CellBands(_, _, _, _, _, _, _, _)
CellBands(self, cell_index, band_index, n_bands, model_array, table_header, n_freq_bins_per_band, lists) ==
    IF band_index >= n_bands \/ lists.exc # "none" THEN lists
    ELSE LET band == CreateBandedJnuModels(self, cell_index, band_index, model_array,
                         table_header, n_freq_bins_per_band,
                         lists.cell_frequency, lists.cell_flux)
         IN  CellBands(self, cell_index, band_index + 1, n_bands, model_array,
                       table_header, n_freq_bins_per_band,
                       [band EXCEPT !.warned = lists.warned + band.warned])

\* The storing of one cell's model: model_freq first, then model_flux.
StoreCellModel(self, cell_index, cell_frequency, cell_flux) ==
    LET index == GetIjFromElemNumber(self.n_z, cell_index)
        model_freq == self.parameters["model_freq"]
        model_flux == self.parameters["model_flux"]
    IN  IF SetElementRaises(model_freq, index) THEN Raise(self, "IndexError")
        ELSE LET with_freq ==
                     [self EXCEPT !.parameters =
                         SetItem(self.parameters, "model_freq",
                                 SetElement(model_freq, index, HStack(cell_frequency)))]
             IN  IF SetElementRaises(model_flux, index) THEN Raise(with_freq, "IndexError")
                 ELSE [with_freq EXCEPT !.parameters =
                          SetItem(with_freq.parameters, "model_flux",
                                  SetElement(model_flux, index, HStack(cell_flux)))]

\* The loop over the cells, from cell_index on.
RECURSIVE ModelCells(_, _, _, _, _, _)
ModelCells(self, cell_index, n_bands, model_array, table_header, n_freq_bins_per_band) ==
    IF cell_index >= self.n_cells THEN self
    ELSE LET lists == CellBands(self, cell_index, 0, n_bands, model_array, table_header,
                                n_freq_bins_per_band, BandResult("none", 0, <<>>, <<>>))
             warned == [self EXCEPT !.warnings = self.warnings + lists.warned]
         IN  IF lists.exc # "none" THEN Raise(warned, lists.exc)
             ELSE LET stored == IF Len(lists.cell_flux) # 0
                                THEN StoreCellModel(warned, cell_index,
                                                    lists.cell_frequency, lists.cell_flux)
                                ELSE warned
                  IN  IF stored.exc # "none" THEN stored
                      ELSE ModelCells(stored, cell_index + 1, n_bands, model_array,
                                      table_header, n_freq_bins_per_band)

ModelFreqShape(self, n_bands) ==
    IF self.n_z > 1 THEN <<self.n_x, self.n_z>> ELSE <<self.n_x, n_bands>>

ModelFluxShape(self) ==
    IF self.n_z > 1 THEN <<self.n_x, self.n_z>> ELSE <<self.n_x>>

AllocateObject(self, key, shape) ==
    IF key \in DOMAIN self.parameters THEN self
    ELSE [self EXCEPT !.parameters = SetItem(self.parameters, key, ObjectZeros(shape))]

ReadInWindJnuModels(files, self, n_freq_bins_per_band) ==
    LET read == ReadInWindTable(files, Directory, Root, "spec")
        model_array == read.params
        nband == ListIndex(read.header, "nband")
    IN  IF read.exc # "none" THEN Raise(self, read.exc)
        ELSE IF read.header = <<>> THEN MarkAbsent(self, {"model_freq", "model_flux"})
        ELSE IF Product(model_array.shape) = 0
        THEN MarkAbsent(self, {"model_freq", "model_flux"})
        ELSE IF nband = 0 THEN Raise(self, "ValueError")
        ELSE IF ColumnRaises(model_array, nband - 1) THEN Raise(self, "IndexError")
        ELSE LET n_bands == ArrayMax(Column(model_array, nband - 1)) + 1
                 counted == [self EXCEPT !.n_model_freq_bands = n_bands]
                 allocated ==
                     AllocateObject(
                         AllocateObject(counted, "model_freq", ModelFreqShape(counted, n_bands)),
                         "model_flux", ModelFluxShape(counted))
             IN  ModelCells(allocated, 0, n_bands, model_array, read.header,
                            n_freq_bins_per_band)

\* ----------------------------------------------------- _set_axes_coords

\* `numpy.unique(x) if enum.CoordSystem.CYLINDRICAL else numpy.unique(r)`
\* tests the enumeration member itself, and a member of an Enum is true.
CylindricalMemberIsTrue == TRUE

SetAxesCoords(self) ==
    LET x_key == IF CylindricalMemberIsTrue THEN "x" ELSE "r"
        z_key == IF self.coord_type = "cylindrical" THEN "z" ELSE "theta"
    IN  IF x_key \notin DOMAIN self.parameters THEN Raise(self, "KeyError")
        ELSE LET with_x == [self EXCEPT !.x_coords = Unique(self.parameters[x_key])]
             IN  IF self.n_z > 1
                 THEN IF z_key \notin DOMAIN self.parameters THEN Raise(with_x, "KeyError")
                      ELSE [with_x EXCEPT !.z_coords = Unique(self.parameters[z_key])]
                 ELSE [with_x EXCEPT !.z_coords = ZerosLike(with_x.x_coords)]

\* ------------------------------------------------- the tables on disk

\* The tables windsave2table wrote for a simulation: a scenario names the
\* grid, which tables exist and where, and the files are written from it.
\* Every number is written as an unsigned decimal integer.

DigitString == <<"0", "1", "2", "3", "4", "5", "6", "7", "8", "9">>

RECURSIVE ToStr(_)
ToStr(n) == IF n < 10 THEN DigitString[n + 1]
            ELSE ToStr(n \div 10) \o DigitString[(n % 10) + 1]

\* The spatial columns each table of a grid starts with; the velocities too
\* in the tables of the grids whose units are converted.
SpatialColumns(geometry) ==
    CASE geometry = "cylindrical" -> <<"i", "j", "x", "z">>
      [] geometry = "polar" -> <<"i", "j", "r", "theta">>
      [] geometry = "polar_xz" -> <<"i", "j", "x", "z", "r", "theta">>
      [] geometry = "spherical" -> <<"i", "r">>
      [] geometry = "spherical_x" -> <<"i", "x", "r">>
      [] geometry = "cylindrical_v" ->
            <<"i", "j", "x", "z", "x_cen", "z_cen", "v_x", "v_y", "v_z">>
      [] geometry = "polar_v" ->
            <<"i", "j", "x", "z", "r", "theta", "r_cen", "v_r", "v_theta">>

Geometries2D == {"cylindrical", "polar", "polar_xz"}
Geometries1D == {"spherical", "spherical_x"}

Grids ==
    [geometry : Geometries2D, nx : 1..MaxNx, nz : 1..MaxNz]
        \cup [geometry : Geometries1D, nx : 1..MaxNx, nz : {1}]

\* The columns a table has besides the spatial ones; t_e is in all four
\* bulk tables, with values of the table's own.
OwnColumns(table) ==
    CASE table = "master" -> <<"t_e", "rho">>
      [] table = "heat" -> <<"t_e", "heat_tot">>
      [] table = "gradient" -> <<"t_e", "dv_x_dx">>
      [] table = "converge" -> <<"t_e", "converge">>
      [] table \in {"H.frac", "H.den"} -> <<"i01", "i02">>
      [] table \in {"He.frac", "He.den", "C.den"} -> <<"i01", "i02", "i03">>
      [] table = "C.frac" -> <<"i01", "i02b", "inwind">>

TableNumber(table) ==
    CASE table = "master" -> 1 [] table = "heat" -> 2 [] table = "gradient" -> 3
      [] table = "converge" -> 4 [] table = "H.frac" -> 5 [] table = "H.den" -> 6
      [] table = "He.frac" -> 7 [] table = "He.den" -> 8 [] table = "C.frac" -> 9
      [] table = "C.den" -> 10

\* The value of a column in the row of cell c (of loop column k of the table).
CellValue(grid, table, col, k, c) ==
    LET i == c \div grid.nz
        j == c % grid.nz
    IN  CASE col = "i" -> i
          [] col = "j" -> j
          [] col = "x" -> 10 * i + 1
          [] col = "z" -> 20 * j + 2
          [] col = "r" -> 30 * i + 3
          [] col = "theta" -> 40 * j + 4
          [] OTHER -> 100 * TableNumber(table) + 10 * k + c

TableHeader(grid, table, own) ==
    SpatialColumns(grid.geometry) \o (IF own THEN OwnColumns(table) ELSE <<>>)

\* A table of the grid with a comment line, the header and one row a cell,
\* and extra_rows rows more that repeat the last cell; with the spatial
\* columns alone unless `own`.
TableFile(grid, table, own, extra_rows) ==
    LET header == TableHeader(grid, table, own)
        n_cells == grid.nx * grid.nz
        Row(c) == [k \in 1..Len(header) |-> ToStr(CellValue(grid, table, header[k], k, c))]
    IN  <<<<"#", "windsave2table", table>>, header>>
            \o [c \in 1..n_cells |-> Row(c - 1)]
            \o [e \in 1..extra_rows |-> Row(n_cells - 1)]

\* The spec table: a row a cell for band 0, then a row a cell for band 1.
\* Band 0 is a power law; band 1 is empty (fmin = fmax = 0) in the cells of
\* even number and an exponential in the others.
SpecHeader(kind) ==
    IF kind = "no_model_type"
    THEN <<"i", "nband", "fmin", "fmax", "pl_log_w", "pl_alpha", "exp_w", "exp_temp">>
    ELSE <<"i", "nband", "spec_mod_type", "fmin", "fmax", "pl_log_w", "pl_alpha",
           "exp_w", "exp_temp">>

SpecValue(grid, col, band, c) ==
    LET empty == band = 1 /\ c % 2 = 0
    IN  CASE col = "i" -> c \div grid.nz
          [] col = "nband" -> band
          [] col = "spec_mod_type" -> IF band = 0 THEN 1 ELSE 2
          [] col = "fmin" -> IF empty THEN 0 ELSE 14 + 2 * band
          [] col = "fmax" -> IF empty THEN 0 ELSE 15 + 2 * band
          [] OTHER -> 10 * c + band + 1

SpecBands(kind) == CASE kind = "header_only" -> 0 [] kind = "two_bands" -> 2 [] OTHER -> 1

SpecFile(grid, kind) ==
    LET header == SpecHeader(kind)
        n_cells == grid.nx * grid.nz
        Row(band, c) == [k \in 1..Len(header) |-> ToStr(SpecValue(grid, header[k], band, c))]
    IN  <<header>>
            \o [n \in 1..(SpecBands(kind) * n_cells) |->
                    Row((n - 1) \div n_cells, (n - 1) % n_cells)]

\* A cell-spectrum file: the frequency column and a column a cell (of the
\* last cell alone when "last_cell"), labelled with a letter and the cell's
\* indices, or with the bare indices when "bare".
NFreq == 2

CellLabel(grid, kind, c) ==
    LET i == ToStr(c \div grid.nz)
        j == ToStr(c % grid.nz)
        pair == IF grid.nz > 1 THEN i \o "_" \o j ELSE i
    IN  IF kind = "bare" THEN pair ELSE "c" \o pair

XspecFile(grid, kind) ==
    LET n_cells == grid.nx * grid.nz
        cells == IF kind = "last_cell" THEN <<n_cells>> ELSE [c \in 1..n_cells |-> c]
    IN  <<<<"Freq.">> \o [k \in 1..Len(cells) |-> CellLabel(grid, kind, cells[k] - 1)]>>
            \o [f \in 1..NFreq |->
                   <<ToStr(100 + f)>> \o [k \in 1..Len(cells) |-> ToStr(10 * cells[k] + f)]]

\* A second cell-spectrum file, with the column of cell 0 and `rows` rows.
SecondXspecFile(grid, rows) ==
    <<<<"Freq.", CellLabel(grid, "prefixed", 0)>>>>
        \o [f \in 1..rows |-> <<ToStr(100 + f), ToStr(50 + f)>>]

\* The cell-spectrum files of a scenario: one file, or the column of the
\* last cell in the first file and that of cell 0 in a second one, of as
\* many rows ("two_files") or of one row more ("uneven_files").
XspecFiles(grid, kind) ==
    CASE kind = "none" -> <<>>
      [] kind = "two_files" ->
            (DirectoryListing[1] :> XspecFile(grid, "last_cell"))
                @@ (DirectoryListing[2] :> SecondXspecFile(grid, NFreq))
      [] kind = "uneven_files" ->
            (DirectoryListing[1] :> XspecFile(grid, "last_cell"))
                @@ (DirectoryListing[2] :> SecondXspecFile(grid, NFreq + 1))
      [] OTHER -> DirectoryListing[1] :> XspecFile(grid, kind)

\* Where a table lies: in the simulation directory or in its tables/.
TablePath(table, in_tables) ==
    IF in_tables THEN Directory \o "/tables/" \o Root \o "." \o table \o ".txt"
    ELSE Directory \o "/" \o Root \o "." \o table \o ".txt"

InTablesDirectory(layout, table) ==
    \/ layout = "tables"
    \/ layout = "mixed" /\ table \in {"heat", "converge", "H.den", "C.den"}

BulkTableSet == {BulkTables[t] : t \in 1..Len(BulkTables)}

IonTableSets == {{}, {"H.frac"}, {"H.frac", "H.den"}, {"He.frac", "C.den"}, {"C.frac"}}

Scenario(grid, bulk, own, layout, extra_heat_rows, ions, spec, xspec) ==
    [grid |-> grid, bulk |-> bulk, own |-> own, layout |-> layout,
     extra_heat_rows |-> extra_heat_rows, ions |-> ions, spec |-> spec, xspec |-> xspec]

\* The scenarios: every grid with every set of bulk tables, with a master
\* table of the spatial columns alone, with every set of ion tables, and
\* with every kind of spec table and cell-spectrum file.
Scenarios ==
    {Scenario(g, b, TRUE, l, e, {"H.frac"}, "none", "none") :
        g \in Grids, b \in SUBSET BulkTableSet, l \in {"primary", "tables", "mixed"},
        e \in {0, 1}}
    \cup {Scenario(g, {"master"}, FALSE, "primary", 0, {"H.frac"}, "none", "none") :
        g \in Grids}
    \cup {Scenario(g, {"master"}, TRUE, l, 0, n, "none", "none") :
        g \in Grids, l \in {"primary", "mixed"}, n \in IonTableSets}
    \cup {Scenario(g, {"master"}, TRUE, "primary", 0, {"H.frac"}, s, x) :
        g \in Grids, s \in {"none", "header_only", "one_band", "two_bands", "no_model_type"},
        x \in {"none", "prefixed", "bare", "last_cell"}}
    \cup {Scenario(g, {"master"}, TRUE, "primary", 0, {"H.frac"}, "none", x) :
        g \in Grids, x \in {"two_files", "uneven_files"}}

FilesOf(sc) ==
    LET tables == sc.bulk \cup sc.ions
        TableAt(path) == CHOOSE t \in tables : TablePath(t, InTablesDirectory(sc.layout, t)) = path
        table_files ==
            [path \in {TablePath(t, InTablesDirectory(sc.layout, t)) : t \in tables} |->
                TableFile(sc.grid, TableAt(path), sc.own \/ TableAt(path) \notin sc.bulk,
                          IF TableAt(path) = "heat" THEN sc.extra_heat_rows ELSE 0)]
        spec_files ==
            IF sc.spec = "none" THEN <<>>
            ELSE TablePath("spec", FALSE) :> SpecFile(sc.grid, sc.spec)
        xspec_files == XspecFiles(sc.grid, sc.xspec)
    IN  table_files @@ spec_files @@ xspec_files

\* The files with the header line of a table taken out: its first line
\* that is no comment is then the row of cell 0.
WithoutHeader(fs, path) ==
    [fs EXCEPT ![path] = SelectSeq(@, LAMBDA line : line # NonCommentLines(fs[path])[1])]

\* Every grid with the tables master, heat and H.frac, one of heat and
\* H.frac without its header.
HeaderlessFiles ==
    {WithoutHeader(FilesOf(Scenario(g, {"master", "heat"}, TRUE, "primary", 0, {"H.frac"},
                                    "none", "none")),
                   TablePath(t, FALSE)) :
        g \in Grids, t \in {"heat", "H.frac"}}

\* ------------------------------------------------------------- the state

VARIABLES
    files,               \* the file system: path |-> lines of the file
    pc,                  \* the statement of __init__ that runs next, or that raised
    exc,                 \* the exception that left __init__, or "none"
    parameters,          \* self.parameters
    things_read_in,      \* self.things_read_in, the keys it shows
    ions_read_in,        \* self.ions_read_in
    n_x, n_z, n_cells,   \* self.n_x, self.n_z, self.n_cells
    coord_type,          \* self.coord_type
    x_coords, z_coords,  \* self.x_coords, self.z_coords
    n_model_freq_bands,  \* self.n_model_freq_bands
    warnings,            \* the number of warnings given
    distance_units,      \* self.distance_units
    velocity_units,      \* self.velocity_units
    grav_radius,         \* self.grav_radius of a Wind, "unset" before it is assigned
    assembled,           \* history: the object as the constructor of a Wind's base left it
    call                 \* the last call of a function of the interface

vars == <<files, pc, exc, parameters, things_read_in, ions_read_in, n_x, n_z, n_cells,
          coord_type, x_coords, z_coords, n_model_freq_bands, warnings, distance_units,
          velocity_units, grav_radius, assembled, call>>

EmptyList == [kind |-> "list", shape |-> <<0>>, data |-> <<>>]
NoCall == [op |-> "none", args |-> <<>>, result |-> <<>>]

\* The object as the steps take it.
Self ==
    [exc |-> exc, parameters |-> parameters, things_read_in |-> things_read_in,
     ions_read_in |-> ions_read_in, n_x |-> n_x, n_z |-> n_z, n_cells |-> n_cells,
     coord_type |-> coord_type, x_coords |-> x_coords, z_coords |-> z_coords,
     n_model_freq_bands |-> n_model_freq_bands, warnings |-> warnings]

\* The object a step left behind becomes the state; an exception leaves
\* __init__ at the statement that raised it, else the statement `next` follows.
Becomes(self, next) ==
    /\ exc' = self.exc
    /\ parameters' = self.parameters
    /\ things_read_in' = self.things_read_in
    /\ ions_read_in' = self.ions_read_in
    /\ n_x' = self.n_x
    /\ n_z' = self.n_z
    /\ n_cells' = self.n_cells
    /\ coord_type' = self.coord_type
    /\ x_coords' = self.x_coords
    /\ z_coords' = self.z_coords
    /\ n_model_freq_bands' = self.n_model_freq_bands
    /\ warnings' = self.warnings
    /\ pc' = IF self.exc = "none" THEN next ELSE pc
    /\ UNCHANGED <<files, call, distance_units, velocity_units, grav_radius, assembled>>

\* The fields as __init__ sets them before it reads anything.
InitFields ==
    /\ exc = "none"
    /\ parameters = <<>>
    /\ things_read_in = {}
    /\ ions_read_in = <<>>
    /\ n_x = 0
    /\ n_z = 0
    /\ n_cells = 0
    /\ coord_type = "unknown"
    /\ x_coords = EmptyList
    /\ z_coords = EmptyList
    /\ n_model_freq_bands = 0
    /\ warnings = 0
    /\ distance_units = "cm"
    /\ velocity_units = "cm/s"
    /\ grav_radius = "unset"

InitObject ==
    /\ InitFields
    /\ assembled = "unset"

Init ==
    /\ \/ \E sc \in Scenarios : files = FilesOf(sc)
       \/ files \in HeaderlessFiles
    /\ pc = "read_in_wind_parameters"
    /\ InitObject
    /\ call = NoCall

\* self.read_in_wind_parameters()
DoReadInWindParameters ==
    /\ pc = "read_in_wind_parameters"
    /\ exc = "none"
    /\ Becomes(ReadInWindParameters(files, Self), "read_in_wind_ions")

\* self.read_in_wind_ions()
DoReadInWindIons ==
    /\ pc = "read_in_wind_ions"
    /\ exc = "none"
    /\ Becomes(ReadInWindIons(files, Self), "read_in_wind_cell_spectra")

\* self.read_in_wind_cell_spectra()
DoReadInWindCellSpectra ==
    /\ pc = "read_in_wind_cell_spectra"
    /\ exc = "none"
    /\ Becomes(ReadInWindCellSpectra(files, Self), "read_in_wind_jnu_models")

\* self.read_in_wind_jnu_models()
DoReadInWindJnuModels ==
    /\ pc = "read_in_wind_jnu_models"
    /\ exc = "none"
    /\ Becomes(ReadInWindJnuModels(files, Self, DefaultFreqBins), "_set_axes_coords")

\* self.things_read_in = self.parameters.keys(); self._set_axes_coords()
DoSetAxesCoords ==
    /\ pc = "_set_axes_coords"
    /\ exc = "none"
    /\ Becomes(SetAxesCoords([Self EXCEPT !.things_read_in = DOMAIN parameters]), "done")

Next ==
    \/ DoReadInWindParameters
    \/ DoReadInWindIons
    \/ DoReadInWindCellSpectra
    \/ DoReadInWindJnuModels
    \/ DoSetAxesCoords

Spec == Init /\ [][Next]_vars

\* ------------------------------------------ the table reader on its own

\* The first token of the first line that is no comment, in each form a
\* table may open with: a column name, and numbers written as an unsigned
\* integer, a decimal, a signed number and with an exponent.
FirstTokens == {"i", "0", "12", "1.5", "-3", "1e14"}

\* A table of two columns and one row of the number `mark`, opening with
\* the token `first`, after a comment line when `commented`.
ReaderFile(first, mark, commented) ==
    (IF commented THEN <<<<"#", "comment">>>> ELSE <<>>)
        \o <<<<first, "rho">>, <<"0", ToStr(mark)>>>>

\* The tables read_in_wind_table is asked for.
ReaderTables == {"master", "He.frac", "spec"}

\* The file systems: master in the directory and in tables/ in every form
\* or absent, He.frac well formed or absent in either place, spec absent.
ReaderFileSystems ==
    LET Forms(table, in_tables, firsts) ==
            {<<>>} \cup
            {TablePath(table, in_tables) :> ReaderFile(first, IF in_tables THEN 2 ELSE 1,
                                                       first \in {"i", "0", "1.5"})
                : first \in firsts}
    IN  {a @@ b @@ c @@ d :
            a \in Forms("master", FALSE, FirstTokens),
            b \in Forms("master", TRUE, FirstTokens),
            c \in Forms("He.frac", FALSE, {"i"}),
            d \in Forms("He.frac", TRUE, {"i"})}

InitTable ==
    /\ files \in ReaderFileSystems
    /\ pc = "read_in_wind_table"
    /\ InitObject
    /\ call = NoCall

\* self.read_in_wind_table(table)
CallReadInWindTable ==
    /\ pc = "read_in_wind_table"
    /\ \E table \in ReaderTables :
           call' = [op |-> "read_in_wind_table", args |-> <<table>>,
                    result |-> ReadInWindTable(files, Directory, Root, table)]
    /\ UNCHANGED <<files, pc, exc, parameters, things_read_in, ions_read_in, n_x, n_z,
                   n_cells, coord_type, x_coords, z_coords, n_model_freq_bands, warnings,
                   distance_units, velocity_units, grav_radius, assembled>>

NextTable == CallReadInWindTable

SpecTable == InitTable /\ [][NextTable]_vars

\* ---------------------------------------- the index functions on their own

InitIndex ==
    /\ files = <<>>
    /\ pc = "index"
    /\ exc = "none"
    /\ parameters = <<>>
    /\ things_read_in = {}
    /\ ions_read_in = <<>>
    /\ n_x \in 1..MaxIdxNx
    /\ n_z \in 1..MaxIdxNz
    /\ n_cells = n_x * n_z
    /\ coord_type = "unknown"
    /\ x_coords = EmptyList
    /\ z_coords = EmptyList
    /\ n_model_freq_bands = 0
    /\ warnings = 0
    /\ distance_units = "cm"
    /\ velocity_units = "cm/s"
    /\ grav_radius = "unset"
    /\ assembled = "unset"
    /\ call = NoCall

\* self.get_ij_from_elem_number(elem)
CallGetIjFromElemNumber ==
    /\ pc = "index"
    /\ \E elem \in 0..(n_cells - 1) :
           call' = [op |-> "get_ij_from_elem_number", args |-> <<elem>>,
                    result |-> GetIjFromElemNumber(n_z, elem)]
    /\ UNCHANGED <<files, pc, exc, parameters, things_read_in, ions_read_in, n_x, n_z,
                   n_cells, coord_type, x_coords, z_coords, n_model_freq_bands, warnings,
                   distance_units, velocity_units, grav_radius, assembled>>

\* self.get_elem_number_from_ij(i, j)
CallGetElemNumberFromIj ==
    /\ pc = "index"
    /\ \E i \in 0..(n_x - 1), j \in 0..(n_z - 1) :
           call' = [op |-> "get_elem_number_from_ij", args |-> <<i, j>>,
                    result |-> <<GetElemNumberFromIj(n_z, i, j)>>]
    /\ UNCHANGED <<files, pc, exc, parameters, things_read_in, ions_read_in, n_x, n_z,
                   n_cells, coord_type, x_coords, z_coords, n_model_freq_bands, warnings,
                   distance_units, velocity_units, grav_radius, assembled>>

NextIndex == CallGetIjFromElemNumber \/ CallGetElemNumberFromIj

SpecIndex == InitIndex /\ [][NextIndex]_vars

\* --------------------------------------- the banded model of one band

\* A spec table of two bands whose rows run through the limits a band may
\* have (none, ascending, descending, equal) and the two model kinds, from
\* row `shift` of that cycle on; `kind` is the name of the model column.
BandLimits == <<<<0, 0>>, <<14, 15>>, <<15, 14>>, <<14, 14>>>>

BandHeader(kind) ==
    <<"i", "nband">> \o (IF kind = "none" THEN <<>> ELSE <<kind>>)
        \o <<"fmin", "fmax", "pl_log_w", "pl_alpha", "exp_w", "exp_temp">>

BandValue(grid_cells, col, r, shift) ==
    CASE col = "i" -> r % grid_cells
      [] col = "nband" -> r \div grid_cells
      [] col \in {"spec_mod_type", "spec_mod_"} -> (((r + shift) \div 4) % 2) + 1
      [] col = "fmin" -> BandLimits[((r + shift) % 4) + 1][1]
      [] col = "fmax" -> BandLimits[((r + shift) % 4) + 1][2]
      [] OTHER -> 10 * r + 1

BandFile(grid_cells, kind, shift) ==
    LET header == BandHeader(kind)
    IN  <<header>>
            \o [n \in 1..(2 * grid_cells) |->
                   [k \in 1..Len(header) |->
                       ToStr(BandValue(grid_cells, header[k], n - 1, shift))]]

\* The lists a call is given: empty, or with the arrays of one band.
PriorLists ==
    {[cell_frequency |-> <<>>, cell_flux |-> <<>>],
     [cell_frequency |-> <<BandArray("logspace", 12, 13, 0, 0, DefaultFreqBins)>>,
      cell_flux |-> <<BandArray("powerlaw", 12, 13, 1, 2, DefaultFreqBins)>>]}

InitBand ==
    /\ \E cells \in 1..MaxBandCells, kind \in {"spec_mod_type", "spec_mod_", "none"},
          shift \in 0..7 :
           /\ files = (TablePath("spec", FALSE) :> BandFile(cells, kind, shift))
           /\ n_cells = cells
    /\ n_x = n_cells
    /\ n_z = 1
    /\ pc = "read_in_wind_jnu_models"
    /\ exc = "none"
    /\ parameters = <<>>
    /\ things_read_in = {}
    /\ ions_read_in = <<>>
    /\ coord_type = "unknown"
    /\ x_coords = EmptyList
    /\ z_coords = EmptyList
    /\ n_model_freq_bands = 2
    /\ warnings = 0
    /\ distance_units = "cm"
    /\ velocity_units = "cm/s"
    /\ grav_radius = "unset"
    /\ assembled = "unset"
    /\ call = NoCall

\* self.create_banded_jnu_models(cell_index, band_index, model_array,
\* table_header, n_freq_bins_per_band, cell_frequency, cell_flux)
CallCreateBandedJnuModels ==
    /\ pc = "read_in_wind_jnu_models"
    /\ exc = "none"
    /\ LET read == ReadInWindTable(files, Directory, Root, "spec")
       IN  \E cell_index \in 0..(n_cells - 1), band_index \in 0..(n_model_freq_bands - 1),
              n_freq_bins_per_band \in {DefaultFreqBins, 2 * DefaultFreqBins},
              prior \in PriorLists :
               call' = [op |-> "create_banded_jnu_models",
                        args |-> <<cell_index, band_index, n_freq_bins_per_band,
                                   prior.cell_frequency, prior.cell_flux>>,
                        result |-> CreateBandedJnuModels(Self, cell_index, band_index,
                                       read.params, read.header, n_freq_bins_per_band,
                                       prior.cell_frequency, prior.cell_flux)]
    /\ UNCHANGED <<files, pc, exc, parameters, things_read_in, ions_read_in, n_x, n_z,
                   n_cells, coord_type, x_coords, z_coords, n_model_freq_bands, warnings,
                   distance_units, velocity_units, grav_radius, assembled>>

\* One band by itself, or self.read_in_wind_jnu_models() over the table.
NextBand == CallCreateBandedJnuModels \/ DoReadInWindJnuModels

SpecBand == InitBand /\ [][NextBand]_vars

\* ------------------------------------------------- the grid once assembled

\* The object __init__ starts from, and the object it leaves behind: the
\* five steps in their order, an exception ending the construction.
NewObject ==
    [exc |-> "none", parameters |-> <<>>, things_read_in |-> {}, ions_read_in |-> <<>>,
     n_x |-> 0, n_z |-> 0, n_cells |-> 0, coord_type |-> "unknown",
     x_coords |-> EmptyList, z_coords |-> EmptyList, n_model_freq_bands |-> 0,
     warnings |-> 0]

Then(self, step) == IF self.exc # "none" THEN self ELSE step

Constructed(fs) ==
    CHOOSE self \in
        {Then(with_models,
              SetAxesCoords([with_models EXCEPT
                                !.things_read_in = DOMAIN with_models.parameters])) :
            with_models \in
                {Then(with_spectra, ReadInWindJnuModels(fs, with_spectra, DefaultFreqBins)) :
                    with_spectra \in
                        {Then(with_ions, ReadInWindCellSpectra(fs, with_ions)) :
                            with_ions \in
                                {Then(with_parameters, ReadInWindIons(fs, with_parameters)) :
                                    with_parameters \in
                                        {ReadInWindParameters(fs, NewObject)}}}}} : TRUE

UpperCaseChars ==
    {"A", "B", "C", "D", "E", "F", "G", "H", "I", "J", "K", "L", "M", "N", "O", "P",
     "Q", "R", "S", "T", "U", "V", "W", "X", "Y", "Z"}

\* re.match("[A-Z]_i[0-9]+", key): one capital, "_i" and a digit open the key.
MatchesIonKey(key) ==
    /\ Len(key) >= 4
    /\ Ch(key, 1) \in UpperCaseChars
    /\ SubSeq(key, 2, 3) = "_i"
    /\ Ch(key, 4) \in DigitChars

\* re.match("[A-Z]_i[0-9]+$", key): and nothing but digits follows.
MatchesBareIonKey(key) ==
    MatchesIonKey(key) /\ \A k \in 4..Len(key) : Ch(key, k) \in DigitChars

\* The key __getitem__ looks up.
DefaultedKey(key) ==
    IF MatchesIonKey(key) THEN (IF MatchesBareIonKey(key) THEN key \o "_frac" ELSE key)
    ELSE key

\* self[key]: the value, or the KeyError of a key that is not bound.
GetItem(dict, key) ==
    IF DefaultedKey(key) \in DOMAIN dict
    THEN [exc |-> "none", value |-> dict[DefaultedKey(key)]]
    ELSE [exc |-> "KeyError", value |-> None]

\* The grids a lookup is tried on: those the constructor completes on, with
\* each set of ion tables.
LookupScenarios ==
    {Scenario(g, {"master"}, TRUE, "primary", 0, n, "none", "none") :
        g \in Grids, n \in IonTableSets}

\* The keys asked for: ions of each element with and without the suffix,
\* bulk columns, and a key that is bound nowhere.
LookupKeys ==
    {"H_i01", "H_i02", "H_i01_frac", "H_i01_den", "He_i01", "He_i03", "He_i01_frac",
     "C_i03", "C_i03_den", "rho", "t_e", "x", "i01", "ne"}

InitLookup ==
    \E sc \in LookupScenarios :
        \E fs \in {FilesOf(sc)} :
            \E self \in {Constructed(fs)} :
                /\ self.exc = "none"
                /\ files = fs
                /\ pc = "done"
                /\ exc = "none"
                /\ parameters = self.parameters
                /\ things_read_in = self.things_read_in
                /\ ions_read_in = self.ions_read_in
                /\ n_x = self.n_x
                /\ n_z = self.n_z
                /\ n_cells = self.n_cells
                /\ coord_type = self.coord_type
                /\ x_coords = self.x_coords
                /\ z_coords = self.z_coords
                /\ n_model_freq_bands = self.n_model_freq_bands
                /\ warnings = self.warnings
                /\ distance_units = "cm"
                /\ velocity_units = "cm/s"
                /\ grav_radius = "unset"
                /\ assembled = "unset"
                /\ call = NoCall

\* self[key]
CallGetItem ==
    /\ pc = "done"
    /\ \E key \in LookupKeys :
           call' = [op |-> "__getitem__", args |-> <<key>>,
                    result |-> GetItem(parameters, key)]
    /\ UNCHANGED <<files, pc, exc, parameters, things_read_in, ions_read_in, n_x, n_z,
                   n_cells, coord_type, x_coords, z_coords, n_model_freq_bands, warnings,
                   distance_units, velocity_units, grav_radius, assembled>>

NextLookup == CallGetItem

SpecLookup == InitLookup /\ [][NextLookup]_vars

\* ------------------------------------------------------------ the Wind

\* A number held exactly, as n * 2^e[1] * 5^e[2] * 41^e[3] * 457^e[4] with
\* n free of these primes (or 0): the products and quotients of the tables'
\* numbers and the unit factors stay in this form.
UnitPrimes == <<2, 5, 41, 457>>

RECURSIVE Normal(_)
Normal(q) ==
    IF q.n = 0 THEN [n |-> 0, e |-> <<0, 0, 0, 0>>]
    ELSE IF \E k \in 1..4 : q.n % UnitPrimes[k] = 0
    THEN LET k == CHOOSE k \in 1..4 : q.n % UnitPrimes[k] = 0
         IN  Normal([n |-> q.n \div UnitPrimes[k], e |-> [q.e EXCEPT ![k] = @ + 1]])
    ELSE q

Exact(k) == Normal([n |-> k, e |-> <<0, 0, 0, 0>>])

Times(a, b) == Normal([n |-> a.n * b.n, e |-> [k \in 1..4 |-> a.e[k] + b.e[k]]])

\* a / b for a unit factor b, which is a product of the primes alone.
Quotient(a, b) == Normal([n |-> a.n, e |-> [k \in 1..4 |-> a.e[k] - b.e[k]]])

\* enum.DistanceUnits and enum.VelocityUnits.
DistanceUnits == {"cm", "m", "km", "rg"}
VelocityUnits == {"cm/s", "m/s", "km/s", "c"}

distance_conv_lookup_rg_nonzero ==
    [u \in DistanceUnits |->
        CASE u = "cm" -> Quotient(Exact(1), Exact(100))
          [] u = "m" -> Exact(1)
          [] u = "km" -> Exact(1000)
          [] u = "rg" -> Exact(41)]

distance_conv_lookup ==
    [u \in DistanceUnits |->
        CASE u = "cm" -> Quotient(Exact(1), Exact(100))
          [] u = "m" -> Exact(1)
          [] u = "km" -> Exact(1000)
          [] u = "rg" -> Exact(0)]

velocity_conv_lookup ==
    [u \in VelocityUnits |->
        CASE u = "cm/s" -> Quotient(Exact(1), Exact(100))
          [] u = "m/s" -> Exact(1)
          [] u = "km/s" -> Exact(1000)
          [] u = "c" -> Exact(299792000)]

DistanceQuantities == <<"x", "z", "x_cen", "z_cen", "r", "r_cen">>
VelocityQuantities == <<"v_x", "v_y", "v_z", "v_r", "v_theta">>

\* self.parameter_keys: the names bound in the grid.
ParameterKeys(self) == DOMAIN self.parameters

\* array *= conversion_factor
ScaleArray(array, conversion_factor) ==
    [array EXCEPT !.data = [k \in 1..Len(array.data) |-> Times(array.data[k], conversion_factor)]]

RECURSIVE ScaleQuantitiesStopsAtUnbound(_, _, _, _)
ScaleQuantitiesStopsAtUnbound(self, quantities, conversion_factor, q) ==
    IF q > Len(quantities) THEN self
    ELSE IF quantities[q] \notin ParameterKeys(self) THEN self
    ELSE ScaleQuantitiesStopsAtUnbound(
             [self EXCEPT !.parameters[quantities[q]] = ScaleArray(@, conversion_factor)],
             quantities, conversion_factor, q + 1)

\* The loop `for quant in (...)`, from quantity number q on.
RECURSIVE ScaleQuantities(_, _, _, _)
ScaleQuantities(self, quantities, conversion_factor, q) ==
    IF q > Len(quantities) THEN self
    ELSE IF quantities[q] \notin ParameterKeys(self)
    THEN ScaleQuantities(self, quantities, conversion_factor, q + 1)
    ELSE ScaleQuantities(
             [self EXCEPT !.parameters[quantities[q]] = ScaleArray(@, conversion_factor)],
             quantities, conversion_factor, q + 1)

\* What a method of the Wind leaves: the exception it raised and the object.
Outcome(raised, self) == [exc |-> raised, self |-> self]

ConversionFactorFromBase(lookup, current, new_units) == Quotient(Exact(1), lookup[new_units])

ConversionFactorInverted(lookup, current, new_units) ==
    Quotient(lookup[new_units], lookup[current])

\* conversion_factor = lookup[self.<units>] / lookup[new_units]
ConversionFactor(lookup, current, new_units) == Quotient(lookup[current], lookup[new_units])

\* Wind.__change_distance_units
ChangeDistanceUnits(self, new_units) ==
    IF self.distance_units = new_units THEN Outcome("none", self)
    ELSE IF new_units \notin DOMAIN distance_conv_lookup
            \/ self.distance_units \notin DOMAIN distance_conv_lookup
    THEN Outcome("KeyError", self)
    ELSE IF distance_conv_lookup[new_units].n = 0 THEN Outcome("ZeroDivisionError", self)
    ELSE LET conversion_factor ==
                 ConversionFactor(distance_conv_lookup, self.distance_units, new_units)
             scaled == ScaleQuantities(self, DistanceQuantities, conversion_factor, 1)
         IN  Outcome("none",
                     [scaled EXCEPT !.grav_radius = Times(@, conversion_factor),
                                    !.distance_units = new_units])

\* Wind.__change_velocity_units
ChangeVelocityUnits(self, new_units) ==
    IF self.velocity_units = new_units THEN Outcome("none", self)
    ELSE IF new_units \notin DOMAIN velocity_conv_lookup
            \/ self.velocity_units \notin DOMAIN velocity_conv_lookup
    THEN Outcome("KeyError", self)
    ELSE LET conversion_factor ==
                 ConversionFactor(velocity_conv_lookup, self.velocity_units, new_units)
             scaled == ScaleQuantities(self, VelocityQuantities, conversion_factor, 1)
         IN  Outcome("none", [scaled EXCEPT !.velocity_units = new_units])

ChangeUnitsCrossed(self, new_units) ==
    IF new_units \in DistanceUnits THEN ChangeVelocityUnits(self, new_units)
    ELSE Outcome("ValueError", self)

ChangeUnitsDefaultsToCm(self, new_units) ==
    IF new_units \in DistanceUnits THEN ChangeDistanceUnits(self, new_units)
    ELSE IF new_units \in VelocityUnits THEN ChangeVelocityUnits(self, new_units)
    ELSE ChangeDistanceUnits(self, "cm")

\* Wind.change_units
ChangeUnits(self, new_units) ==
    IF new_units \in DistanceUnits THEN ChangeDistanceUnits(self, new_units)
    ELSE IF new_units \in VelocityUnits THEN ChangeVelocityUnits(self, new_units)
    ELSE Outcome("ValueError", self)

\* pypython.utilities.smooth_array(array, amount): the boxcar average.
SmoothArray(array, amount) == [kind |-> "smoothed", amount |-> amount, of |-> array]

\* Wind.smooth_cell_spectra: the loops over i and j read self.parameters["spec"].
SmoothCellSpectra(self, amount) ==
    IF self.n_x * self.n_z = 0 THEN Outcome("none", self)
    ELSE IF "spec" \notin DOMAIN self.parameters THEN Outcome("KeyError", self)
    ELSE Outcome("none",
                 [self EXCEPT !.parameters["spec"].data =
                     [k \in 1..Len(@) |-> SmoothArray(@[k], amount)]])

\* Wind.unsmooth_cell_spectra reads self.__original_parameters, an attribute
\* that nothing assigns.
UnsmoothCellSpectra(self) == Outcome("AttributeError", self)

\* The grids of the Wind: cylindrical and polar with the velocities, of one
\* cell or more an axis, with and without a cell-spectrum file.
WindGrids == [geometry : {"cylindrical_v", "polar_v"}, nx : {1, MaxNx}, nz : {1, MaxNz}]

WindScenarios ==
    {Scenario(g, {"master"}, TRUE, "primary", 0, {"H.frac"}, "none", x) :
        g \in WindGrids, x \in {"none", "prefixed"}}

\* The gravitational radius of the model, in cm.
GravRadii == {Exact(3), Exact(20)}

\* The columns a conversion may scale, their numbers held exactly.
ExactColumns(dict) ==
    [key \in DOMAIN dict |->
        IF \E q \in 1..Len(DistanceQuantities) : DistanceQuantities[q] = key
        THEN [dict[key] EXCEPT !.data = [k \in 1..Len(@) |-> Exact(@[k])]]
        ELSE IF \E q \in 1..Len(VelocityQuantities) : VelocityQuantities[q] = key
        THEN [dict[key] EXCEPT !.data = [k \in 1..Len(@) |-> Exact(@[k])]]
        ELSE dict[key]]

\* The Wind as its methods take it.
WindSelf ==
    [parameters |-> parameters, distance_units |-> distance_units,
     velocity_units |-> velocity_units, grav_radius |-> grav_radius,
     n_x |-> n_x, n_z |-> n_z]

\* The object before a call, with the call before that and the object it found.
Snapshot ==
    [parameters |-> parameters, distance_units |-> distance_units,
     velocity_units |-> velocity_units, grav_radius |-> grav_radius,
     last |-> IF call.op = "none" THEN NoCall
              ELSE [call EXCEPT !.before.last = NoCall]]

InitWind ==
    \E sc \in WindScenarios :
        \E fs \in {FilesOf(sc)} :
            \E self \in {Constructed(fs)} :
                /\ self.exc = "none"
                /\ files = fs
                /\ pc = "done"
                /\ exc = "none"
                /\ parameters = ExactColumns(self.parameters)
                /\ things_read_in = self.things_read_in
                /\ ions_read_in = self.ions_read_in
                /\ n_x = self.n_x
                /\ n_z = self.n_z
                /\ n_cells = self.n_cells
                /\ coord_type = self.coord_type
                /\ x_coords = self.x_coords
                /\ z_coords = self.z_coords
                /\ n_model_freq_bands = self.n_model_freq_bands
                /\ warnings = self.warnings
                /\ distance_units = "cm"
                /\ velocity_units = "cm/s"
                /\ grav_radius \in GravRadii
                /\ assembled = self
                /\ call = NoCall

\* The object a method left behind becomes the state.
WindBecomes(op, args, outcome) ==
    /\ parameters' = outcome.self.parameters
    /\ distance_units' = outcome.self.distance_units
    /\ velocity_units' = outcome.self.velocity_units
    /\ grav_radius' = outcome.self.grav_radius
    /\ call' = [op |-> op, args |-> args, result |-> [exc |-> outcome.exc],
                before |-> Snapshot]
    /\ UNCHANGED <<files, pc, exc, things_read_in, ions_read_in, n_x, n_z, n_cells,
                   coord_type, x_coords, z_coords, n_model_freq_bands, warnings,
                   assembled>>

\* self.change_units(new_units), with a unit of either kind or another value.
CallChangeUnits ==
    /\ pc = "done"
    /\ \E new_units \in DistanceUnits \cup VelocityUnits \cup {"parsec"} :
           WindBecomes("change_units", <<new_units>>, ChangeUnits(WindSelf, new_units))

\* self.smooth_cell_spectra(amount)
CallSmoothCellSpectra ==
    /\ pc = "done"
    /\ \E amount \in {3, 5} :
           WindBecomes("smooth_cell_spectra", <<amount>>, SmoothCellSpectra(WindSelf, amount))

\* self.unsmooth_cell_spectra()
CallUnsmoothCellSpectra ==
    /\ pc = "done"
    /\ WindBecomes("unsmooth_cell_spectra", <<>>, UnsmoothCellSpectra(WindSelf))

NextWind == CallChangeUnits \/ CallSmoothCellSpectra \/ CallUnsmoothCellSpectra

SpecWind == InitWind /\ [][NextWind]_vars

\* ------------------------------------------------- Wind.__init__

\* Wind.__calculate_grav_radius: its one statement raises NotImplementedError.
CalculateGravRadius == [exc |-> "NotImplementedError", value |-> "unset"]

\* self.grav_radius = self.__calculate_grav_radius(), the statement of
\* Wind.__init__ after super().__init__(root, directory, **kwargs) returned.
DoCalculateGravRadius ==
    /\ pc = "done"
    /\ exc = "none"
    /\ exc' = CalculateGravRadius.exc
    /\ grav_radius' = IF CalculateGravRadius.exc = "none" THEN CalculateGravRadius.value
                      ELSE grav_radius
    /\ pc' = IF CalculateGravRadius.exc = "none" THEN "constructed" ELSE pc
    /\ UNCHANGED <<files, parameters, things_read_in, ions_read_in, n_x, n_z, n_cells,
                   coord_type, x_coords, z_coords, n_model_freq_bands, warnings,
                   distance_units, velocity_units, assembled, call>>

NextConstruct == Next \/ DoCalculateGravRadius

SpecConstruct == Init /\ [][NextConstruct]_vars

\* ------------------------------------------- the ion read called again

\* self.read_in_wind_ions() on the grid the constructor assembled, while
\* ions_read_in is shorter than MaxIonsReadIn.
CallReadInWindIons ==
    /\ pc = "done"
    /\ Len(ions_read_in) < MaxIonsReadIn
    /\ \E self \in {ReadInWindIons(files, Self)} :
          /\ parameters' = self.parameters
          /\ ions_read_in' = self.ions_read_in
          /\ call' = [op |-> "read_in_wind_ions", args |-> <<>>,
                      result |-> [exc |-> self.exc],
                      before |-> [parameters |-> parameters, ions_read_in |-> ions_read_in]]
    /\ UNCHANGED <<files, pc, exc, things_read_in, n_x, n_z, n_cells, coord_type, x_coords,
                   z_coords, n_model_freq_bands, warnings, distance_units, velocity_units,
                   grav_radius, assembled>>

NextIons == CallReadInWindIons

SpecIons == InitLookup /\ [][NextIons]_vars

\* ------------------------------------- the steps of __init__ in any order

\* The five statements of __init__ that assemble the grid, run one at a time
\* in an order of the caller's choosing: `call.args` lists the steps that ran.

AssemblySteps ==
    <<"read_in_wind_parameters", "read_in_wind_ions", "read_in_wind_cell_spectra",
      "read_in_wind_jnu_models", "_set_axes_coords">>

StepRan(step) == \E k \in 1..Len(call.args) : call.args[k] = step

\* Grids of more than one cell, with one and with two bands of ion tables,
\* with and without a spec table and a cell-spectrum file.
OrderScenarios ==
    {Scenario(g, {"master"}, TRUE, "primary", 0, n, s, x) :
        g \in {grid \in Grids : grid.nx = MaxNx},
        n \in {{"H.frac"}, {"H.frac", "H.den"}},
        s \in {"none", "two_bands"}, x \in {"none", "prefixed"}}

InitOrder ==
    /\ \E sc \in OrderScenarios :
          files = FilesOf(sc)
    /\ pc = "any_order"
    /\ InitObject
    /\ call = [op |-> "__init__", args |-> <<>>, result |-> <<>>]

\* The object the step left behind becomes the state, and the step has run.
StepBecomes(step, self) ==
    /\ exc' = self.exc
    /\ parameters' = self.parameters
    /\ things_read_in' = self.things_read_in
    /\ ions_read_in' = self.ions_read_in
    /\ n_x' = self.n_x
    /\ n_z' = self.n_z
    /\ n_cells' = self.n_cells
    /\ coord_type' = self.coord_type
    /\ x_coords' = self.x_coords
    /\ z_coords' = self.z_coords
    /\ n_model_freq_bands' = self.n_model_freq_bands
    /\ warnings' = self.warnings
    /\ call' = [call EXCEPT !.args = Append(@, step)]
    /\ UNCHANGED <<files, pc, distance_units, velocity_units, grav_radius, assembled>>

MayRun(step) == pc = "any_order" /\ exc = "none" /\ ~StepRan(step)

RunReadInWindParameters ==
    /\ MayRun("read_in_wind_parameters")
    /\ StepBecomes("read_in_wind_parameters", ReadInWindParameters(files, Self))

RunReadInWindIons ==
    /\ MayRun("read_in_wind_ions")
    /\ StepBecomes("read_in_wind_ions", ReadInWindIons(files, Self))

RunReadInWindCellSpectra ==
    /\ MayRun("read_in_wind_cell_spectra")
    /\ StepBecomes("read_in_wind_cell_spectra", ReadInWindCellSpectra(files, Self))

RunReadInWindJnuModels ==
    /\ MayRun("read_in_wind_jnu_models")
    /\ StepBecomes("read_in_wind_jnu_models",
                   ReadInWindJnuModels(files, Self, DefaultFreqBins))

\* The axis derivation comes after the parameter merge.
RunSetAxesCoords ==
    /\ MayRun("_set_axes_coords")
    /\ StepRan("read_in_wind_parameters")
    /\ StepBecomes("_set_axes_coords",
                   SetAxesCoords([Self EXCEPT !.things_read_in = DOMAIN parameters]))

NextOrder ==
    \/ RunReadInWindParameters
    \/ RunReadInWindIons
    \/ RunReadInWindCellSpectra
    \/ RunReadInWindJnuModels
    \/ RunSetAxesCoords

SpecOrder == InitOrder /\ [][NextOrder]_vars

\* ---------------------------------------------------------------- claims

\* The lines of a table as they lie on disk under the naming convention:
\* <directory>/<root>.<table>.txt, else <directory>/tables/<root>.<table>.txt.
TableOnDisk(table) ==
    IF TablePath(table, FALSE) \in DOMAIN files THEN files[TablePath(table, FALSE)]
    ELSE IF TablePath(table, TRUE) \in DOMAIN files THEN files[TablePath(table, TRUE)]
    ELSE <<>>

TableExists(table) ==
    TablePath(table, FALSE) \in DOMAIN files \/ TablePath(table, TRUE) \in DOMAIN files

TableDefines(table, col) ==
    LET lines == NonCommentLines(TableOnDisk(table))
    IN  lines # <<>> /\ \E k \in 1..Len(lines[1]) : lines[1][k] = col

\* The numbers of a column of a table on disk, top to bottom.
ColumnOnDisk(table, col) ==
    LET lines == NonCommentLines(TableOnDisk(table))
        k == Min({c \in 1..Len(lines[1]) : lines[1][c] = col})
    IN  [r \in 1..(Len(lines) - 1) |-> ParseNumber(lines[r + 1][k])]

FirstDefiner(col) ==
    BulkTables[Min({t \in 1..Len(BulkTables) : TableDefines(BulkTables[t], col)})]

\* The steps of __init__ that have run (returned or raised).
ParametersReturned == pc # "read_in_wind_parameters"
ParametersActed == ParametersReturned \/ exc # "none"
IonsReturned == pc \notin {"read_in_wind_parameters", "read_in_wind_ions"}
IonsActed == IonsReturned \/ (pc = "read_in_wind_ions" /\ exc # "none")
CellSpectraReturned ==
    pc \in {"read_in_wind_jnu_models", "_set_axes_coords", "done"}
JnuModelsReturned == pc \in {"_set_axes_coords", "done"}

\* C1: on a grid with n_x >= 1 and n_z >= 1, get_elem_number_from_ij gives
\* back elem from the (i, j) that get_ij_from_elem_number made of it, for
\* every 0 <= elem < n_x * n_z, with (i, j) inside the grid; and
\* get_ij_from_elem_number gives back (i, j) from elem = n_z * i + j.
C1_IndexRoundTrip ==
    /\ call.op = "get_ij_from_elem_number" =>
          /\ call.result[1] \in 0..(n_x - 1)
          /\ call.result[2] \in 0..(n_z - 1)
          /\ GetElemNumberFromIj(n_z, call.result[1], call.result[2]) = call.args[1]
    /\ call.op = "get_elem_number_from_ij" =>
          /\ call.result[1] = n_z * call.args[1] + call.args[2]
          /\ GetIjFromElemNumber(n_z, call.result[1]) = call.args

C1_Witness ==
    /\ call.op = "get_ij_from_elem_number"
    /\ n_x > 1 /\ n_z > 1 /\ n_x # n_z
    /\ call.args[1] = n_x * n_z - 1
    /\ call.result = <<n_x - 1, n_z - 1>>

\* C2: once read_in_wind_parameters has merged the bulk tables, a column
\* that one or more of master, heat, gradient, converge define holds the
\* values of the first of them, in that order, that defines it.
C2_FirstTableWins ==
    ParametersActed =>
        \A col \in DOMAIN parameters :
            (\E t \in 1..Len(BulkTables) : TableDefines(BulkTables[t], col)) =>
                parameters[col].data = ColumnOnDisk(FirstDefiner(col), col)

C2_Witness ==
    /\ pc = "done"
    /\ ~TableExists("master")
    /\ TableDefines("heat", "t_e") /\ TableDefines("gradient", "t_e")
    /\ ColumnOnDisk("heat", "t_e") # ColumnOnDisk("gradient", "t_e")
    /\ parameters["t_e"].data = ColumnOnDisk("heat", "t_e")

\* C3: once the parameter merge and the ion read have completed, every
\* array bound from a bulk table or an ion table has shape (n_x, n_z) and
\* n_x * n_z = n_cells entries.
C3_ShapeIsGrid ==
    IonsReturned =>
        /\ n_cells = n_x * n_z
        /\ \A key \in DOMAIN parameters \ {"spec_freq", "spec_flux", "model_freq", "model_flux"} :
               /\ parameters[key].shape = <<n_x, n_z>>
               /\ Len(parameters[key].data) = n_cells

C3_Witness ==
    /\ pc = "done"
    /\ n_x = 2 /\ n_z = 2
    /\ {"heat_tot", "H_i01_frac"} \subseteq DOMAIN parameters
    /\ parameters["H_i01_frac"].shape = <<2, 2>>

\* C4: once the bulk tables are merged and the grid is sized, n_x is the
\* largest i plus one, n_z the largest j plus one when z or theta is bound
\* and 1 otherwise, and n_cells = n_x * n_z; a master table alone with the
\* header i j r theta and the rows i, j in {0, 1} gives 2, 2 and 4.
MasterIsTwoByTwoPolar ==
    LET lines == NonCommentLines(TableOnDisk("master"))
    IN  /\ \A t \in 2..Len(BulkTables) : ~TableExists(BulkTables[t])
        /\ Len(lines) = 5
        /\ lines[1] = <<"i", "j", "r", "theta">>
        /\ {<<lines[r][1], lines[r][2]>> : r \in 2..5} = {"0", "1"} \X {"0", "1"}

C4_GridSize ==
    /\ coord_type # "unknown" =>
          /\ n_x = Max({parameters["i"].data[k] : k \in 1..Len(parameters["i"].data)}) + 1
          /\ n_z = IF "z" \in DOMAIN parameters \/ "theta" \in DOMAIN parameters
                   THEN Max({parameters["j"].data[k] : k \in 1..Len(parameters["j"].data)}) + 1
                   ELSE 1
          /\ n_cells = n_x * n_z
    /\ (ParametersActed /\ MasterIsTwoByTwoPolar) =>
          (ParametersReturned /\ n_x = 2 /\ n_z = 2 /\ n_cells = 4)

C4_Witness ==
    /\ ParametersReturned
    /\ MasterIsTwoByTwoPolar
    /\ n_x = 2 /\ n_z = 2 /\ n_cells = 4

\* C5: after the parameter merge has returned, the coordinate system is
\* polar when r and theta are bound, spherical when r is bound and theta is
\* not, cylindrical otherwise, and never unknown.
C5_CoordinateSystem ==
    ParametersReturned =>
        /\ coord_type # "unknown"
        /\ ("r" \in DOMAIN parameters /\ "theta" \in DOMAIN parameters) => coord_type = "polar"
        /\ ("r" \in DOMAIN parameters /\ "theta" \notin DOMAIN parameters) =>
              coord_type = "spherical"
        /\ "r" \notin DOMAIN parameters => coord_type = "cylindrical"

C5_Witness ==
    /\ pc = "done"
    /\ coord_type = "polar"
    /\ {"x", "z", "r", "theta"} \subseteq DOMAIN parameters

\* C6: after assembly x_coords is the sorted distinct values of x on a
\* cylindrical grid and of r on a spherical or polar one, z_coords those of
\* z or theta when n_z > 1 and zeros shaped like x_coords when n_z = 1; and
\* the axes are derived without error for a spherical or polar grid that
\* has no column x.
SortedDistinct(array) ==
    LET vals == {array.data[k] : k \in 1..Len(array.data)}
    IN  NdArray(<<Cardinality(vals)>>, SortedSeq(vals))

C6_AxesFollowCoordinateSystem ==
    /\ pc = "done" =>
          /\ x_coords = SortedDistinct(
                 parameters[IF coord_type = "cylindrical" THEN "x" ELSE "r"])
          /\ z_coords = IF n_z > 1
                        THEN SortedDistinct(
                                 parameters[IF coord_type = "cylindrical" THEN "z" ELSE "theta"])
                        ELSE NdArray(x_coords.shape, [k \in 1..Len(x_coords.data) |-> 0])
    /\ (pc = "_set_axes_coords" /\ coord_type \in {"spherical", "polar"}
            /\ "x" \notin DOMAIN parameters) => exc = "none"

\* C7: read_in_wind_parameters raises the missing-data error (OSError) iff
\* none of the four bulk tables is on disk, and read_in_wind_ions raises it
\* iff no ion table of any element, fraction or density, is on disk.
IonTableNames ==
    {Elements[e] \o "." \o IonTypes[t] : e \in 1..Len(Elements), t \in 1..Len(IonTypes)}

C7_MissingDataError ==
    /\ ParametersActed =>
          ((pc = "read_in_wind_parameters" /\ exc = "OSError")
              <=> \A t \in 1..Len(BulkTables) : ~TableExists(BulkTables[t]))
    /\ IonsActed =>
          ((pc = "read_in_wind_ions" /\ exc = "OSError")
              <=> \A table \in IonTableNames : ~TableExists(table))

C7_Witness ==
    /\ pc = "read_in_wind_ions"
    /\ exc = "OSError"
    /\ TableExists("master")
    /\ \A table \in IonTableNames : ~TableExists(table)

\* C8: with no cell-spectrum file the cell-spectrum step raises nothing and
\* binds spec_freq and spec_flux to None, with no spec table the J_nu step
\* raises nothing and binds model_freq and model_flux to None, and __init__
\* goes on to the statements that follow.
NoCellSpectrumFile == \A k \in 1..Len(DirectoryListing) : DirectoryListing[k] \notin DOMAIN files

IsNone(key) == key \in DOMAIN parameters /\ parameters[key].kind = "None"

C8_AbsentSpectraAreNone ==
    /\ NoCellSpectrumFile =>
          /\ pc = "read_in_wind_cell_spectra" => exc = "none"
          /\ CellSpectraReturned => IsNone("spec_freq") /\ IsNone("spec_flux")
    /\ ~TableExists("spec") =>
          /\ pc = "read_in_wind_jnu_models" => exc = "none"
          /\ JnuModelsReturned => IsNone("model_freq") /\ IsNone("model_flux")

C8_Witness ==
    /\ pc = "done"
    /\ NoCellSpectrumFile /\ ~TableExists("spec")
    /\ IsNone("spec_freq") /\ IsNone("spec_flux")
    /\ IsNone("model_freq") /\ IsNone("model_flux")

\* C9: read_in_wind_table(table) opens <directory>/<root>.<table>.txt when
\* it exists, else <directory>/tables/<root>.<table>.txt when that exists,
\* and returns that file's header; when neither exists it raises nothing
\* and returns an empty header and empty data.
C9_PrimaryThenTables ==
    call.op = "read_in_wind_table" =>
        LET table == call.args[1]
            primary == Directory \o "/" \o Root \o "." \o table \o ".txt"
            fallback == Directory \o "/tables/" \o Root \o "." \o table \o ".txt"
            read == call.result
        IN  /\ primary \in DOMAIN files => read.path = primary
            /\ (primary \notin DOMAIN files /\ fallback \in DOMAIN files) =>
                  read.path = fallback
            /\ (primary \notin DOMAIN files /\ fallback \notin DOMAIN files) =>
                  /\ read.exc = "none"
                  /\ read.path = ""
                  /\ read.header = <<>>
                  /\ read.params = EmptyData
            /\ (read.exc = "none" /\ read.path # "") =>
                  read.header = NonCommentLines(files[read.path])[1]

C9_Witness ==
    /\ call.op = "read_in_wind_table"
    /\ call.args = <<"He.frac">>
    /\ (Directory \o "/" \o Root \o ".He.frac.txt") \notin DOMAIN files
    /\ call.result.path = Directory \o "/tables/" \o Root \o ".He.frac.txt"
    /\ call.result.exc = "none"
    /\ call.result.header = <<"i", "rho">>

\* C10: read_in_wind_table raises the format error whenever the first line
\* that is no comment begins with a number, in each of its forms: unsigned
\* integer (0), decimal (1.5), signed (-3), with an exponent (1e14).
IsDecimalToken(s) ==
    \E k \in 1..Len(s) :
        /\ Ch(s, k) = "."
        /\ Len(s) > 1
        /\ k > 1 => IsDigit(SubSeq(s, 1, k - 1))
        /\ k < Len(s) => IsDigit(SubSeq(s, k + 1, Len(s)))

Unsigned(s) ==
    IF Len(s) > 1 /\ Ch(s, 1) \in {"+", "-"} THEN SubSeq(s, 2, Len(s)) ELSE s

IsMantissaToken(s) == IsDigit(Unsigned(s)) \/ IsDecimalToken(Unsigned(s))

IsNumericToken(s) ==
    \/ IsMantissaToken(s)
    \/ \E k \in 2..(Len(s) - 1) :
           /\ Ch(s, k) \in {"e", "E"}
           /\ IsMantissaToken(SubSeq(s, 1, k - 1))
           /\ IsDigit(Unsigned(SubSeq(s, k + 1, Len(s))))

C10_NumericFirstTokenIsFormatError ==
    (call.op = "read_in_wind_table" /\ call.result.path # "") =>
        (IsNumericToken(NonCommentLines(files[call.result.path])[1][1]) =>
            /\ call.result.exc = "Exception"
            /\ call.result.header = <<>>)

IsIonColumnName(col) ==
    Len(col) >= 2 /\ Ch(col, 1) = "i" /\ \A k \in 2..Len(col) : Ch(col, k) \in DigitChars

IsBareIonKeyOfElement(key) ==
    \E e \in 1..Len(Elements) :
        /\ StartsWith(key, Elements[e] \o "_")
        /\ IsIonColumnName(SubSeq(key, Len(Elements[e]) + 2, Len(key)))

LookedUpAs(key, bound_key) ==
    call.result = IF bound_key \in DOMAIN parameters
                  THEN [exc |-> "none", value |-> parameters[bound_key]]
                  ELSE [exc |-> "KeyError", value |-> None]

\* C11: for every element symbol, of one letter or two, and every bound ion
\* stage, self["<Element>_i<digits>"] returns the array bound to
\* "<Element>_i<digits>_frac"; a key with a suffix and a key of no ion are
\* looked up as they are.
C11_BareIonKeyDefaultsToFrac ==
    call.op = "__getitem__" =>
        LET key == call.args[1]
        IN  IF IsBareIonKeyOfElement(key) THEN LookedUpAs(key, key \o "_frac")
            ELSE LookedUpAs(key, key)

\* The spec table as it lies on disk: the number written in column `col` of
\* the row of cell `cell_index` in band `band_index`.
SpecTableLines == NonCommentLines(files[TablePath("spec", FALSE)])

SpecTableHas(col) == \E k \in 1..Len(SpecTableLines[1]) : SpecTableLines[1][k] = col

SpecTableNumber(col, cell_index, band_index) ==
    LET k == CHOOSE k \in 1..Len(SpecTableLines[1]) : SpecTableLines[1][k] = col
    IN  ParseNumber(SpecTableLines[2 + cell_index + band_index * n_cells][k])

BandIsCalled == call.op = "create_banded_jnu_models"

CalledBandHasLimits ==
    SpecTableNumber("fmax", call.args[1], call.args[2])
        > SpecTableNumber("fmin", call.args[1], call.args[2])

\* C12: a band whose row has f_max <= f_min (f_min = f_max = 0 included)
\* adds nothing to the cell's frequency and flux lists; a band with
\* f_max > f_min and a model kind adds exactly one array to each list.
C12_EmptyBandAddsNothing ==
    BandIsCalled =>
        /\ ~CalledBandHasLimits =>
              /\ call.result.exc = "none"
              /\ call.result.warned = 0
              /\ call.result.cell_frequency = call.args[4]
              /\ call.result.cell_flux = call.args[5]
        /\ (CalledBandHasLimits /\ (SpecTableHas("spec_mod_type") \/ SpecTableHas("spec_mod_"))) =>
              /\ call.result.exc = "none"
              /\ Len(call.result.cell_frequency) = Len(call.args[4]) + 1
              /\ Len(call.result.cell_flux) = Len(call.args[5]) + 1
              /\ SubSeq(call.result.cell_frequency, 1, Len(call.args[4])) = call.args[4]
              /\ SubSeq(call.result.cell_flux, 1, Len(call.args[5])) = call.args[5]
              /\ call.result.cell_frequency[Len(call.args[4]) + 1].fn = "logspace"
              /\ call.result.cell_flux[Len(call.args[5]) + 1].fn \in {"powerlaw", "exponential"}

\* A band with f_max < f_min, both non-zero, was called with a list of one
\* band and left it as it was.
C12_Witness ==
    /\ BandIsCalled
    /\ SpecTableNumber("fmax", call.args[1], call.args[2]) = 14
    /\ SpecTableNumber("fmin", call.args[1], call.args[2]) = 15
    /\ Len(call.args[4]) = 1
    /\ call.result.cell_frequency = call.args[4]
    /\ SpecTableHas("spec_mod_")

JnuModelsActed ==
    JnuModelsReturned \/ (pc = "read_in_wind_jnu_models" /\ exc # "none")

\* The spec table on disk has the row of every cell in every band and names
\* the model kind.
SpecTableIsWhole ==
    /\ TablePath("spec", FALSE) \in DOMAIN files
    /\ Len(SpecTableLines) > 1
    /\ SpecTableHas("spec_mod_type") \/ SpecTableHas("spec_mod_")

BandsOnDisk == (Len(SpecTableLines) - 1) \div n_cells

\* The bands of a cell with f_max > f_min, in ascending order.
RetainedBands(c) ==
    SelectSeq([b \in 1..BandsOnDisk |-> b - 1],
              LAMBDA b : SpecTableNumber("fmax", c, b) > SpecTableNumber("fmin", c, b))

\* The arrays the spec describes for band b of cell c, of n entries.
FrequenciesOnDisk(c, b, n) ==
    BandArray("logspace", SpecTableNumber("fmin", c, b), SpecTableNumber("fmax", c, b),
              0, 0, n)

FluxOnDisk(c, b, n) ==
    LET kind == IF SpecTableHas("spec_mod_type") THEN "spec_mod_type" ELSE "spec_mod_"
    IN  IF SpecTableNumber(kind, c, b) = 1
        THEN BandArray("powerlaw", SpecTableNumber("fmin", c, b),
                       SpecTableNumber("fmax", c, b), SpecTableNumber("pl_log_w", c, b),
                       SpecTableNumber("pl_alpha", c, b), n)
        ELSE BandArray("exponential", SpecTableNumber("fmin", c, b),
                       SpecTableNumber("fmax", c, b), SpecTableNumber("exp_w", c, b),
                       SpecTableNumber("exp_temp", c, b), n)

\* The entry of cell c in the array bound to key: at (i, j) of an array of
\* two axes, at i of an array of one.
CellEntry(key, c) ==
    LET array == parameters[key]
        i == c \div n_z
        j == c % n_z
    IN  IF key \notin DOMAIN parameters \/ array.kind = "None" THEN None
        ELSE IF Len(array.shape) = 2 THEN array.data[i * array.shape[2] + j + 1]
        ELSE array.data[i + 1]

\* C13: for every cell, model_freq and model_flux are the arrays of exactly
\* the bands with f_max > f_min, end to end in ascending band index, 250
\* entries a band: both have length 250 * (number of such bands).
C13_ModelIsConcatenation ==
    (JnuModelsActed /\ SpecTableIsWhole) =>
        \A c \in 0..(n_cells - 1) :
            LET bands == RetainedBands(c)
            IN  bands # <<>> =>
                   /\ CellEntry("model_freq", c)
                        = [kind |-> "hstack", shape |-> <<250 * Len(bands)>>,
                           data |-> [k \in 1..Len(bands) |->
                                        FrequenciesOnDisk(c, bands[k], 250)]]
                   /\ CellEntry("model_flux", c)
                        = [kind |-> "hstack", shape |-> <<250 * Len(bands)>>,
                           data |-> [k \in 1..Len(bands) |-> FluxOnDisk(c, bands[k], 250)]]

SpecTableNamesNoKind ==
    /\ TablePath("spec", FALSE) \in DOMAIN files
    /\ Len(SpecTableLines) > 1
    /\ ~SpecTableHas("spec_mod_type")
    /\ ~SpecTableHas("spec_mod_")

\* The (cell, band) pairs of the spec table on disk with f_max > f_min.
BandsWithLimits ==
    {cb \in (0..(n_cells - 1)) \X (0..(BandsOnDisk - 1)) :
        SpecTableNumber("fmax", cb[1], cb[2]) > SpecTableNumber("fmin", cb[1], cb[2])}

\* C14: when the spec table names neither spec_mod_type nor spec_mod_, a
\* band with f_max > f_min gives a warning, raises nothing and returns two
\* empty lists in place of the lists it was given; the read goes on over
\* the remaining cells, warns for each such band and returns.
C14_UnusableBandWarns ==
    /\ (BandIsCalled /\ SpecTableNamesNoKind /\ CalledBandHasLimits) =>
          /\ call.result.exc = "none"
          /\ call.result.warned = 1
          /\ call.result.cell_frequency = <<>>
          /\ call.result.cell_flux = <<>>
    /\ (JnuModelsActed /\ SpecTableNamesNoKind) =>
          /\ JnuModelsReturned
          /\ warnings = Cardinality(BandsWithLimits)
          /\ \A c \in 0..(n_cells - 1) :
                /\ CellEntry("model_freq", c) = ZeroObject
                /\ CellEntry("model_flux", c) = ZeroObject

\* A band with limits was called with the lists of one band and returned
\* empty lists; and a read over a table of several such bands returned.
C14_Witness ==
    /\ BandIsCalled
    /\ SpecTableNamesNoKind
    /\ CalledBandHasLimits
    /\ Len(call.args[4]) = 1
    /\ call.result.cell_frequency = <<>>
    /\ call.result.warned = 1
    /\ JnuModelsReturned
    /\ n_cells > 1
    /\ warnings > 1

\* The entry of array `key` at (i, j) = get_ij_from_elem_number(c), the
\* array taken as one of shape (n_x, n_z).
EntryAtIj(key, c) ==
    parameters[key].data[
        RowMajor(<<n_x, n_z>>, <<c \div n_z, c - (c \div n_z) * n_z>>) + 1]

\* C15: on every grid, one with n_z = 1 included, the read of the banded
\* models does not fail; model_freq and model_flux have shape (n_x, n_z);
\* the model of cell c is in both at (i, j) = get_ij_from_elem_number(c),
\* and a cell with no retained band has no entry.
C15_ModelStoredAtIj ==
    (JnuModelsActed /\ SpecTableIsWhole) =>
        /\ JnuModelsReturned
        /\ parameters["model_freq"].shape = <<n_x, n_z>>
        /\ parameters["model_flux"].shape = <<n_x, n_z>>
        /\ \A c \in 0..(n_cells - 1) :
              IF RetainedBands(c) = <<>>
              THEN /\ EntryAtIj("model_freq", c) = ZeroObject
                   /\ EntryAtIj("model_flux", c) = ZeroObject
              ELSE /\ EntryAtIj("model_freq", c).kind = "hstack"
                   /\ EntryAtIj("model_flux", c).kind = "hstack"

CellSpectraActed ==
    CellSpectraReturned \/ (pc = "read_in_wind_cell_spectra" /\ exc # "none")

\* The cell-spectrum files on disk in the order they are read; of file n,
\* the labels after the first, the numbers of column k (0 the frequencies),
\* and the pair a label writes after `skip` characters.
XspecPaths == SelectSeq(DirectoryListing, LAMBDA path : path \in DOMAIN files)

XspecOnDisk == XspecPaths # <<>>

XspecLabels(n) == Tail(files[XspecPaths[n]][1])

XspecRows(n) == Len(files[XspecPaths[n]]) - 1

XspecColumn(n, k) ==
    [f \in 1..XspecRows(n) |-> ParseNumber(files[XspecPaths[n]][f + 1][k + 1])]

IsPairLabel(label, skip) ==
    LET parts == Split(SubSeq(label, skip + 1, Len(label)), "_")
    IN  /\ Len(label) > skip
        /\ Len(parts) = 2
        /\ IsDigit(parts[1]) /\ IsDigit(parts[2])
        /\ ParseNumber(parts[1]) < n_x /\ ParseNumber(parts[2]) < n_z

LabelPair(label, skip) ==
    LET parts == Split(SubSeq(label, skip + 1, Len(label)), "_")
    IN  <<ParseNumber(parts[1]), ParseNumber(parts[2])>>

\* The files have as many rows each, and every label is a pair inside the
\* grid after `skip` characters.
XspecFilesAreLabelled(skip) ==
    /\ XspecOnDisk
    /\ \A n \in 1..Len(XspecPaths) :
          /\ XspecRows(n) = XspecRows(1)
          /\ \A k \in 1..Len(XspecLabels(n)) : IsPairLabel(XspecLabels(n)[k], skip)

\* array[i, j, :] of the array bound to key.
SpectrumAt(key, ij) ==
    LET array == parameters[key]
        n == array.shape[3]
    IN  [f \in 1..n |-> array.data[(ij[1] * array.shape[2] + ij[2]) * n + f]]

\* No later column names the pair of column k of file n.
IsLastOfItsPair(n, k, skip) ==
    \A m \in n..Len(XspecPaths) : \A l \in 1..Len(XspecLabels(m)) :
        (m > n \/ l > k) =>
            LabelPair(XspecLabels(m)[l], skip) # LabelPair(XspecLabels(n)[k], skip)

\* Every column is at the pair of its label, with the frequencies, and the
\* cells no label names are as they were allocated.
SpectraScattered(skip) ==
    /\ CellSpectraReturned
    /\ \A n \in 1..Len(XspecPaths) : \A k \in 1..Len(XspecLabels(n)) :
          IsLastOfItsPair(n, k, skip) =>
              /\ SpectrumAt("spec_flux", LabelPair(XspecLabels(n)[k], skip))
                    = XspecColumn(n, k)
              /\ SpectrumAt("spec_freq", LabelPair(XspecLabels(n)[k], skip))
                    = XspecColumn(n, 0)
    /\ \A i \in 0..(n_x - 1), j \in 0..(n_z - 1) :
          (\A n \in 1..Len(XspecPaths) : \A k \in 1..Len(XspecLabels(n)) :
              LabelPair(XspecLabels(n)[k], skip) # <<i, j>>) =>
              /\ SpectrumAt("spec_flux", <<i, j>>) = [f \in 1..XspecRows(1) |-> 0]
              /\ SpectrumAt("spec_freq", <<i, j>>) = [f \in 1..XspecRows(1) |-> 0]

\* C16 as stated: when n_z > 1, a column whose label is the pair i_j (3_1)
\* is stored at spec_flux[i, j, :], the frequencies at spec_freq[i, j, :],
\* and nowhere else.
C16_PairLabelScatters ==
    (CellSpectraActed /\ n_z > 1 /\ XspecFilesAreLabelled(0)) => SpectraScattered(0)

\* C16 as amended: when n_z > 1, a column whose label is one character and
\* then the pair i_j (c3_1) is stored at spec_flux[i, j, :], the frequencies
\* at spec_freq[i, j, :], and nowhere else; a label that is the bare pair
\* with an i of one digit (3_1) ends the read in a ValueError.
C16_PrefixedPairLabelScatters ==
    /\ (CellSpectraActed /\ n_z > 1 /\ XspecFilesAreLabelled(1)) => SpectraScattered(1)
    /\ (CellSpectraActed /\ n_z > 1 /\ XspecFilesAreLabelled(0)
           /\ Ch(XspecLabels(1)[1], 2) = "_") =>
          (pc = "read_in_wind_cell_spectra" /\ exc = "ValueError")

\* A file with the column of cell (1, 1) alone was scattered on a 2 x 2 grid.
C16_Witness ==
    /\ CellSpectraReturned
    /\ n_x = 2 /\ n_z = 2
    /\ XspecOnDisk
    /\ XspecLabels(1) = <<"c1_1">>
    /\ SpectrumAt("spec_flux", <<1, 1>>) = XspecColumn(1, 1)
    /\ SpectrumAt("spec_flux", <<0, 1>>) = [f \in 1..XspecRows(1) |-> 0]

UnitsChangeIsCalled == call.op = "change_units"

\* The object is as the call found it.
WindIsAsBefore ==
    /\ parameters = call.before.parameters
    /\ grav_radius = call.before.grav_radius
    /\ distance_units = call.before.distance_units
    /\ velocity_units = call.before.velocity_units

\* C17: change_units with the current distance unit, or the current
\* velocity unit, as target raises nothing and changes nothing: every
\* column, grav_radius and both unit tags are as before.
C17_SameUnitIsNoOp ==
    (UnitsChangeIsCalled
        /\ call.args[1] \in {call.before.distance_units, call.before.velocity_units})
    => (call.result.exc = "none" /\ WindIsAsBefore)

\* After a conversion to km, a second conversion to km left the grid as it was.
C17_Witness ==
    /\ UnitsChangeIsCalled
    /\ call.args = <<"km">>
    /\ call.before.distance_units = "km"
    /\ call.before.last.op = "change_units"
    /\ call.before.last.args = <<"km">>
    /\ call.before.last.before.distance_units = "cm"
    /\ call.result.exc = "none"
    /\ distance_units = "km"

IsIn(quantities, key) == \E q \in 1..Len(quantities) : quantities[q] = key

\* The grid is the grid the call found with the columns of `quantities`
\* multiplied by lookup[current] / lookup[target] and the others as they
\* were; no name was bound or unbound.
ColumnsAreScaled(quantities, lookup, current, target) ==
    /\ DOMAIN parameters = DOMAIN call.before.parameters
    /\ \A key \in DOMAIN parameters :
          IF IsIn(quantities, key)
          THEN /\ parameters[key].shape = call.before.parameters[key].shape
               /\ \A k \in 1..Len(parameters[key].data) :
                     parameters[key].data[k]
                        = Times(call.before.parameters[key].data[k],
                                Quotient(lookup[current], lookup[target]))
          ELSE parameters[key] = call.before.parameters[key]

DistanceIsConverted ==
    /\ call.result.exc = "none"
    /\ ColumnsAreScaled(DistanceQuantities, distance_conv_lookup,
                        call.before.distance_units, call.args[1])
    /\ distance_units = call.args[1]
    /\ velocity_units = call.before.velocity_units

VelocityIsConverted ==
    /\ call.result.exc = "none"
    /\ ColumnsAreScaled(VelocityQuantities, velocity_conv_lookup,
                        call.before.velocity_units, call.args[1])
    /\ velocity_units = call.args[1]
    /\ distance_units = call.before.distance_units

IsRoundTrip(units, tag) ==
    /\ UnitsChangeIsCalled
    /\ call.result.exc = "none"
    /\ call.before.last.op = "change_units"
    /\ call.before.last.result.exc = "none"
    /\ call.before.last.args[1] \in units
    /\ call.args[1] \in units
    /\ call.before.last.before[tag] = call.args[1]

C20_UnsmoothRestores ==
    (call.op = "unsmooth_cell_spectra" /\ call.before.last.op = "smooth_cell_spectra"
        /\ XspecOnDisk)
    => /\ call.before.last.result.exc = "none"
       /\ call.result.exc = "none"
       /\ parameters["spec_flux"] = call.before.last.before.parameters["spec_flux"]

\* C21: change_units with a value that is neither a distance unit nor a
\* velocity unit raises ValueError and leaves every column, grav_radius and
\* both unit tags as they were.
C21_OtherValueIsRefused ==
    (UnitsChangeIsCalled /\ call.args[1] \notin DistanceUnits \cup VelocityUnits)
    => (call.result.exc = "ValueError" /\ WindIsAsBefore)

\* A grid converted to km was then asked for parsec: the call raised and the
\* grid is in km still.
C21_Witness ==
    /\ UnitsChangeIsCalled
    /\ call.args = <<"parsec">>
    /\ call.result.exc = "ValueError"
    /\ call.before.last.op = "change_units"
    /\ call.before.last.args = <<"km">>
    /\ call.before.last.result.exc = "none"
    /\ distance_units = "km"
    /\ WindIsAsBefore

\* C22: change_units to gravitational_radius from cm, m or km raises
\* ZeroDivisionError with every column, grav_radius and both tags as they
\* were, and gravitational_radius is never the current distance unit.
C22_RgTargetDividesByZero ==
    /\ (UnitsChangeIsCalled /\ call.args[1] = "rg"
           /\ call.before.distance_units \in {"cm", "m", "km"})
          => (call.result.exc = "ZeroDivisionError" /\ WindIsAsBefore)
    /\ distance_units # "rg"

\* A grid converted to m was then asked for gravitational_radius: the call
\* raised and the grid is in m still.
C22_Witness ==
    /\ UnitsChangeIsCalled
    /\ call.args = <<"rg">>
    /\ call.result.exc = "ZeroDivisionError"
    /\ call.before.last.op = "change_units"
    /\ call.before.last.args = <<"m">>
    /\ call.before.last.result.exc = "none"
    /\ call.before.distance_units = "m"
    /\ distance_units = "m"
    /\ WindIsAsBefore

\* The grid as the constructor assembled it from the files, in cm and cm/s.
Assembled == assembled

\* `value`, a number in the unit `base`, expressed in the unit `unit`.
InUnit(value, lookup, base, unit) == Times(value, Quotient(lookup[base], lookup[unit]))

\* Every bound column of `quantities` is its assembled value expressed in `unit`.
ColumnsFollowTag(quantities, lookup, base, unit) ==
    \A key \in DOMAIN parameters :
        IsIn(quantities, key) =>
            /\ key \in DOMAIN Assembled.parameters
            /\ parameters[key].shape = Assembled.parameters[key].shape
            /\ \A k \in 1..Len(parameters[key].data) :
                  parameters[key].data[k]
                     = InUnit(Exact(Assembled.parameters[key].data[k]), lookup, base, unit)

\* The axis array is the assembled axis expressed in the current distance unit.
AxisFollowsTag(coords, assembled_coords) ==
    /\ Len(coords.data) = Len(assembled_coords.data)
    /\ \A k \in 1..Len(coords.data) :
          Exact(coords.data[k])
             = InUnit(Exact(assembled_coords.data[k]), distance_conv_lookup, "cm",
                      distance_units)

AllStepsRan == Len(call.args) = Len(AssemblySteps)

ParametersRanFirst == call.args # <<>> => call.args[1] = "read_in_wind_parameters"

\* The namespace, n_x, n_z and the coordinate system are those of `grid`.
SameAs(grid) ==
    /\ parameters = grid.parameters
    /\ n_x = grid.n_x
    /\ n_z = grid.n_z
    /\ coord_type = grid.coord_type

\* C24 as stated: on files the constructor assembles without error, the
\* steps run in any order, the axis derivation after the parameter merge,
\* raise nothing and end with the namespace, n_x, n_z and coordinate system
\* of the constructor's order.
C24_AnyOrderAssembles ==
    call.op = "__init__" =>
        LET sequential == Constructed(files)
        IN  sequential.exc = "none"
               => (exc = "none" /\ (AllStepsRan => SameAs(sequential)))

\* C24 as amended: the same for every order that runs the parameter merge
\* first; and where the constructor's order raises, every such order does.
C24_AnyOrderAfterParametersAssembles ==
    (call.op = "__init__" /\ ParametersRanFirst) =>
        LET sequential == Constructed(files)
        IN  /\ sequential.exc = "none"
                  => (exc = "none" /\ (AllStepsRan => SameAs(sequential)))
            /\ sequential.exc # "none" => ~(AllStepsRan /\ exc = "none")

\* Parameters, banded model, axes, cell spectra, ions, in that order, on a
\* grid with a spec table and a cell-spectrum file: the namespace is the
\* constructor's.
C24_Witness ==
    /\ call.op = "__init__"
    /\ call.args = <<"read_in_wind_parameters", "read_in_wind_jnu_models",
                     "_set_axes_coords", "read_in_wind_cell_spectra", "read_in_wind_ions">>
    /\ exc = "none"
    /\ parameters["spec_flux"] # None
    /\ parameters["model_flux"] # None
    /\ "H_i01_den" \in DOMAIN parameters
    /\ SameAs(Constructed(files))

\* max(nband column) + 1 of the spec table on disk.
BandCountOnDisk ==
    LET k == CHOOSE k \in 1..Len(SpecTableLines[1]) : SpecTableLines[1][k] = "nband"
    IN  Max({ParseNumber(SpecTableLines[r][k]) : r \in 2..Len(SpecTableLines)}) + 1

\* The band the call was given has limits and a model kind, and so adds arrays.
CalledBandIsKept ==
    CalledBandHasLimits /\ (SpecTableHas("spec_mod_type") \/ SpecTableHas("spec_mod_"))

\* C25: create_banded_jnu_models for cell c and band b, 0 <= c < n_cells and
\* 0 <= b < max(nband) + 1, reads row c + b * n_cells of the spec table,
\* which lies inside the table: the arrays it adds are those of the
\* coefficients written in that row.
C25_BandRowIsCellPlusBandTimesCells ==
    BandIsCalled =>
        /\ call.args[2] < BandCountOnDisk
        /\ call.args[1] + call.args[2] * n_cells < Len(SpecTableLines) - 1
        /\ call.result.exc = "none"
        /\ CalledBandIsKept =>
              /\ call.result.cell_frequency[Len(call.args[4]) + 1]
                    = FrequenciesOnDisk(call.args[1], call.args[2], call.args[3])
              /\ call.result.cell_flux[Len(call.args[5]) + 1]
                    = FluxOnDisk(call.args[1], call.args[2], call.args[3])

\* Cell 2 of 3 in band 1: the flux is that of the coefficients of row 5.
C25_Witness ==
    /\ BandIsCalled
    /\ n_cells = 3
    /\ call.args[1] = 2
    /\ call.args[2] = 1
    /\ CalledBandIsKept
    /\ call.result.exc = "none"
    /\ SpecTableNumber("pl_log_w", 2, 1) = 51
    /\ call.result.cell_flux[Len(call.args[5]) + 1]
          = FluxOnDisk(call.args[1], call.args[2], call.args[3])

\* The header of a table on disk.
HeaderOnDisk(table) == NonCommentLines(TableOnDisk(table))[1]

\* C26: once the ion read has returned, a column of an ion table on disk is
\* bound, as <element>_<column>_<frac|den>, if and only if its name is `i`
\* and one or more digits; and the columns i, j, x and z are those of the
\* bulk tables still.
C26_OnlyIonStageColumnsBound ==
    IonsReturned =>
        /\ \A e \in 1..Len(Elements), t \in 1..Len(IonTypes) :
              TableExists(Elements[e] \o "." \o IonTypes[t]) =>
                 \A k \in 1..Len(HeaderOnDisk(Elements[e] \o "." \o IonTypes[t])) :
                    LET column == HeaderOnDisk(Elements[e] \o "." \o IonTypes[t])[k]
                    IN  (Elements[e] \o "_" \o column \o "_" \o IonTypes[t]
                            \in DOMAIN parameters)
                        <=> IsIonColumnName(column)
        /\ \A col \in {"i", "j", "x", "z"} \cap DOMAIN parameters :
              parameters[col].data = ColumnOnDisk(FirstDefiner(col), col)

\* C27: read_in_wind_ions called again on the files the grid was assembled
\* from raises nothing, leaves the namespace as it was and adds nothing to
\* ions_read_in, which names no ion twice.
C27_SecondIonReadAddsNothing ==
    /\ call.op = "read_in_wind_ions" =>
          /\ call.result.exc = "none"
          /\ parameters = call.before.parameters
          /\ ions_read_in = call.before.ions_read_in
    /\ \A k, l \in 1..Len(ions_read_in) : ions_read_in[k] = ions_read_in[l] => k = l

\* The table is on disk and its first line that is no comment begins with
\* digits alone: the read of it raises the format error.
TableIsHeaderless(table) ==
    /\ TableExists(table)
    /\ NonCommentLines(TableOnDisk(table)) # <<>>
    /\ IsDigit(NonCommentLines(TableOnDisk(table))[1][1])

\* The statement of __init__ that the files make fail: the parameter merge
\* when no bulk table is on disk or one is without header, the ion read when
\* no ion table is on disk or one is without header; "none" otherwise.
MustFailAt ==
    IF \/ \A t \in 1..Len(BulkTables) : ~TableExists(BulkTables[t])
       \/ \E t \in 1..Len(BulkTables) : TableIsHeaderless(BulkTables[t])
    THEN "read_in_wind_parameters"
    ELSE IF \/ \A table \in IonTableNames : ~TableExists(table)
            \/ \E table \in IonTableNames : TableIsHeaderless(table)
    THEN "read_in_wind_ions"
    ELSE "none"

\* No step from the cell spectra on has left anything, and no object is returned.
NoLaterStepRan ==
    /\ pc \in {"read_in_wind_parameters", "read_in_wind_ions"}
    /\ {"spec_freq", "spec_flux", "model_freq", "model_flux"} \cap DOMAIN parameters = {}
    /\ n_model_freq_bands = 0
    /\ x_coords = EmptyList
    /\ z_coords = EmptyList

\* C28: on files that make the parameter merge or the ion read fail, with
\* the missing-data error or the format error of a table read, __init__
\* stops at that statement with that error: no later statement runs and no
\* object is returned.
C28_ConstructionIsAllOrNothing ==
    /\ MustFailAt # "none" =>
          /\ NoLaterStepRan
          /\ pc = "read_in_wind_ions" => MustFailAt = "read_in_wind_ions"
          /\ (pc = MustFailAt /\ exc # "none") => exc \in {"OSError", "Exception"}
    /\ exc \in {"OSError", "Exception"} => pc # "done"

\* The ion table has no header: the parameter merge has bound the columns of
\* master and heat, the ion read raised the format error, and nothing
\* followed.
C28_Witness ==
    /\ TableIsHeaderless("H.frac")
    /\ pc = "read_in_wind_ions"
    /\ exc = "Exception"
    /\ "heat_tot" \in DOMAIN parameters
    /\ n_x = MaxNx
    /\ NoLaterStepRan

\* The statement that assigns grav_radius has run: it returned or it raised.
GravRadiusActed == pc = "constructed" \/ (pc = "done" /\ exc # "none")

\* C30: on files from which the grid is assembled without error,
\* Wind.__init__ raises nothing and leaves grav_radius a number.
C30_WindIsConstructed ==
    GravRadiusActed => (exc = "none" /\ pc = "constructed" /\ grav_radius # "unset")

====
